---------------------------- MODULE Spec2Model ----------------------------
(***************************************************************************)
(* Template Injection & Email-Compatibility Engine (src/html_builder.py). *)
(*                                                                         *)
(* Markup strings are sequences of one-character strings, indexed from 0   *)
(* as in the Python source (position k of the source is element k+1 of     *)
(* the sequence).  Each family of functions has a specification of its     *)
(* own: its Init draws the inputs from bounded sets and its actions apply  *)
(* the function as the code computes it.                                   *)
(*                                                                         *)
(*   SpecMapper   _text_pos_to_html_pos, one action per loop branch        *)
(*   SpecFade     _split_fade_paragraph on block elements built from units *)
(*   SpecHeading  _split_at_first_heading on fragments built from pieces   *)
(*   SpecGraph    _replace_graph_placeholders on markup and image lists    *)
(*   SpecHeights  _fix_iterable_heights on one styled element              *)
(*   SpecFixes    apply_email_fixes on a document, then on its own output  *)
(*   SpecLinks    _apply_link_fixes on one anchor, then on its own output  *)
(*   SpecMarketing  _inject_marketing on templates with slots left out      *)
(*                                                                         *)
(* A long literal of the source that no pattern can match inside (the      *)
(* fixed parts of the image block) is kept as one element of the sequence. *)
(***************************************************************************)
EXTENDS Integers, Sequences, FiniteSets, TLC

VARIABLES
    html,           \* the markup string handed to the function under study
    pc,             \* position of the call: "start" / "loop" / "done" / "raised"
    result,         \* the value the call returned (None before it returns)
    text_target,    \* _text_pos_to_html_pos: plain-text offset asked for
    i,              \* _text_pos_to_html_pos: index into html
    text_count,     \* _text_pos_to_html_pos: text characters counted so far
    prev,           \* _text_pos_to_html_pos: i, text_count and branch of the last iteration
    el,             \* _split_fade_paragraph: the block element (its inner markup and its text)
    locals,         \* the local variables of the call when it returned
    inline_graphs,  \* _replace_graph_placeholders: the image descriptors, index 0 = GRAPH_1
    soup,           \* build_email_html: the parsed template tree the injectors mutate
    fields,         \* build_email_html: the field bag
    template_type   \* build_email_html: the variant asked for

vars == <<html, pc, result, text_target, i, text_count, prev, el, locals, inline_graphs,
          soup, fields, template_type>>

treeVars == <<soup, fields, template_type>>

mapperVars == <<text_target, i, text_count, prev>>

\* the tree variables while no injector is being stepped
TreeIdle ==
    /\ soup = <<>>
    /\ fields = <<"None">>
    /\ template_type = "none"

\* the mapper's loop variables while no _text_pos_to_html_pos call is being stepped
MapperIdle ==
    /\ text_target = 0
    /\ i = 0
    /\ text_count = 0
    /\ prev = [i |-> 0, text_count |-> 0, branch |-> "none"]

(***************************************************************************)
(* Bounds of the model.                                                    *)
(***************************************************************************)
MaxLen == 5
MaxTarget == 4
MaxUnits == 5
MaxPieces == 4
MaxTokens == 3
MaxImages == 2
MaxDigits == 4
MaxElements == 2
MaxDecls == 2

(***************************************************************************)
(* Python values and string primitives.                                    *)
(***************************************************************************)
None == <<"None">>

MinOf(S) == CHOOSE x \in S : \A y \in S : x <= y

MaxOf(S) == CHOOSE x \in S : \A y \in S : x >= y

Abs(x) == IF x < 0 THEN -x ELSE x

\* s[a:b] with 0 <= a, b
Slice(s, a, b) == IF b > a THEN SubSeq(s, a + 1, IF b > Len(s) THEN Len(s) ELSE b) ELSE <<>>

\* s.find(c, start): lowest index >= start holding c, else -1
Find(s, c, start) ==
    LET hits == {k \in start .. Len(s) - 1 : s[k + 1] = c}
    IN  IF hits = {} THEN -1 ELSE MinOf(hits)

\* every string over alphabet of length at most n
StrSet(alphabet, n) == UNION {[1 .. k -> alphabet] : k \in 0 .. n}

Letters ==
    {"a","b","c","d","e","f","g","h","i","j","k","l","m","n","o","p","q","r",
     "s","t","u","v","w","x","y","z","A","B","C","D","E","F","G","H","I","J",
     "K","L","M","N","O","P","Q","R","S","T","U","V","W","X","Y","Z"}

Digits == {"0","1","2","3","4","5","6","7","8","9"}

\* \w and \s of Python's re
IsWord(c) == c \in Letters \cup Digits \cup {"_"}

IsSpace(c) == c \in {" ", "\t", "\n", "\r"}

\* str.lower() of one character (re.IGNORECASE compares the lower-cased characters)
UpperCase == <<"A","B","C","D","E","F","G","H","I","J","K","L","M","N","O","P","Q","R","S","T","U","V","W","X","Y","Z">>

LowerCase == <<"a","b","c","d","e","f","g","h","i","j","k","l","m","n","o","p","q","r","s","t","u","v","w","x","y","z">>

Lower(c) ==
    IF \E k \in DOMAIN UpperCase : UpperCase[k] = c
    THEN LowerCase[CHOOSE k \in DOMAIN UpperCase : UpperCase[k] = c]
    ELSE c

\* the concatenation of a sequence of strings
RECURSIVE Concat(_)
Concat(parts) == IF parts = <<>> THEN <<>> ELSE parts[1] \o Concat(Tail(parts))

(***************************************************************************)
(* _text_pos_to_html_pos (Position Mapper).                                *)
(***************************************************************************)
\* branch '<': close = html.find('>', i); i = close + 1 if close >= 0 else len(html)
TagNextStuck(h, k) ==
    LET close == Find(h, ">", k)
    IN  IF close >= 0 THEN close + 1 ELSE k

TagNext(h, k) ==
    LET close == Find(h, ">", k)
    IN  IF close >= 0 THEN close + 1 ELSE Len(h)

\* branch '&': semi = html.find(';', i); i = semi + 1 if semi >= 0 else i + 1
EntityNextToEnd(h, k) ==
    LET semi == Find(h, ";", k)
    IN  IF semi >= 0 THEN semi + 1 ELSE Len(h)

EntityNextOneChar(h, k) == k + 1

EntityNext(h, k) ==
    LET semi == Find(h, ";", k)
    IN  IF semi >= 0 THEN semi + 1 ELSE k + 1

h_is(h, k, c) == k < Len(h) /\ h[k + 1] = c

\* which branch of the loop body runs at index k
Branch(h, k) ==
    IF h[k + 1] = "<" THEN "tag"
    ELSE IF h[k + 1] = "&" THEN "entity"
    ELSE "char"

\* one iteration of the while loop: the new (i, text_count)
LoopBodyEntityUncounted(h, k, n) ==
    CASE Branch(h, k) = "tag"    -> [i |-> TagNext(h, k), text_count |-> n]
      [] Branch(h, k) = "entity" -> [i |-> EntityNext(h, k), text_count |-> n]
      [] OTHER                   -> [i |-> k + 1, text_count |-> n + 1]

LoopBody(h, k, n) ==
    CASE Branch(h, k) = "tag"    -> [i |-> TagNext(h, k), text_count |-> n]
      [] Branch(h, k) = "entity" -> [i |-> EntityNext(h, k), text_count |-> n + 1]
      [] OTHER                   -> [i |-> k + 1, text_count |-> n + 1]

\* while i < len(html) and text_count < text_target
LoopCond(h, t, k, n) == k < Len(h) /\ n < t

RECURSIVE MapLoop(_, _, _, _)
MapLoop(h, t, k, n) ==
    IF LoopCond(h, t, k, n)
    THEN LET s == LoopBody(h, k, n) IN MapLoop(h, t, s.i, s.text_count)
    ELSE k

text_pos_to_html_pos(h, t) == MapLoop(h, t, 0, 0)

(***************************************************************************)
(* SpecMapper: the loop of _text_pos_to_html_pos, one action per branch.   *)
(***************************************************************************)
MapperAlphabet == {"<", ">", "&", ";", "a"}

InitMapper ==
    /\ html \in StrSet(MapperAlphabet, MaxLen)
    /\ text_target \in 0 .. MaxTarget
    /\ i = 0
    /\ text_count = 0
    /\ pc = "loop"
    /\ result = None
    /\ prev = [i |-> 0, text_count |-> 0, branch |-> "none"]
    /\ el = None
    /\ locals = None
    /\ inline_graphs = <<>>
    /\ TreeIdle

Iterate(b) ==
    /\ LET s == LoopBody(html, i, text_count)
       IN  /\ i' = s.i
           /\ text_count' = s.text_count
    /\ prev' = [i |-> i, text_count |-> text_count, branch |-> b]
    /\ UNCHANGED <<html, text_target, pc, result, el, locals, inline_graphs, treeVars>>

LoopTag ==
    /\ pc = "loop"
    /\ LoopCond(html, text_target, i, text_count)
    /\ Branch(html, i) = "tag"
    /\ Iterate("tag")

LoopEntity ==
    /\ pc = "loop"
    /\ LoopCond(html, text_target, i, text_count)
    /\ Branch(html, i) = "entity"
    /\ Iterate("entity")

LoopChar ==
    /\ pc = "loop"
    /\ LoopCond(html, text_target, i, text_count)
    /\ Branch(html, i) = "char"
    /\ Iterate("char")

MapperReturn ==
    /\ pc = "loop"
    /\ ~LoopCond(html, text_target, i, text_count)
    /\ pc' = "done"
    /\ result' = i
    /\ UNCHANGED <<html, text_target, i, text_count, prev, el, locals, inline_graphs, treeVars>>

NextMapper == LoopTag \/ LoopEntity \/ LoopChar \/ MapperReturn

SpecMapper == InitMapper /\ [][NextMapper]_vars



(***************************************************************************)
(* Well-formed markup, read independently of the mapper: a tag is          *)
(* '<' ... '>' with no '<' inside, an entity is '&' name ';', anything     *)
(* else is one text character.                                             *)
(***************************************************************************)
IsNameChar(c) == c \in Letters \cup Digits \cup {"#"}

\* end (exclusive) of the unit starting at k, or -1 when none is well formed
UnitEnd(h, k) ==
    IF h[k + 1] = "<"
    THEN LET close == Find(h, ">", k)
         IN  IF close >= 0 /\ \A j \in k + 1 .. close - 1 : h[j + 1] # "<"
             THEN close + 1 ELSE -1
    ELSE IF h[k + 1] = "&"
    THEN LET semi == Find(h, ";", k)
         IN  IF semi > k + 1 /\ \A j \in k + 1 .. semi - 1 : IsNameChar(h[j + 1])
             THEN semi + 1 ELSE -1
    ELSE k + 1

\* the unit boundaries from k on; -1 is among them when the markup is malformed
RECURSIVE BoundariesFrom(_, _)
BoundariesFrom(h, k) ==
    IF k >= Len(h) THEN {k}
    ELSE IF UnitEnd(h, k) = -1 THEN {k, -1}
    ELSE {k} \cup BoundariesFrom(h, UnitEnd(h, k))

Boundaries(h) == BoundariesFrom(h, 0)

WellFormed(h) == -1 \notin Boundaries(h)

\* text characters of h[:o]: units that are not tags and end at or before o
TextIn(h, o) ==
    Cardinality({k \in Boundaries(h) : k < Len(h) /\ h[k + 1] # "<" /\ UnitEnd(h, k) <= o})

TextLen(h) == TextIn(h, Len(h))

(***************************************************************************)
(* C6: _text_pos_to_html_pos is total.  Every iteration strictly increases *)
(* the markup index, every read html[i] is inside the string, the call     *)
(* never stops without returning, and the result lies in 0 .. len(html),   *)
(* for every string, including an unclosed '<' and an '&' with no ';'.     *)
(***************************************************************************)
MapperTotal ==
    /\ i \in 0 .. Len(html)
    /\ text_count \in 0 .. text_target
    /\ prev.branch # "none" => i > prev.i
    /\ (pc = "loop" /\ LoopCond(html, text_target, i, text_count)) => i + 1 \in DOMAIN html
    /\ pc = "loop" => ENABLED NextMapper
    /\ pc = "done" => result \in 0 .. Len(html)
    /\ pc \in {"loop", "done"}

MapperTotalWitness ==
    /\ pc = "done"
    /\ Find(html, "&", 0) >= 0 /\ Find(html, ";", 0) = -1
    /\ Find(html, "<", 0) > Find(html, "&", 0) /\ Find(html, ">", 0) = -1
    /\ prev.branch = "tag"
    /\ result = Len(html)

(***************************************************************************)
(* C7: for well-formed markup the returned offset o is a unit boundary and *)
(* html[:o] holds exactly min(t, T) text characters (a tag counts zero, an *)
(* entity one, T the text length of the whole markup); the result is       *)
(* non-decreasing in t and is 0 for t = 0.                                 *)
(***************************************************************************)
MapperOffsetCorrect ==
    (pc = "done" /\ WellFormed(html)) =>
        /\ result \in Boundaries(html)
        /\ TextIn(html, result) = MinOf({text_target, TextLen(html)})
        /\ result = text_pos_to_html_pos(html, text_target)
        /\ result <= text_pos_to_html_pos(html, text_target + 1)
        /\ text_target = 0 => result = 0

MapperOffsetWitness ==
    /\ pc = "done"
    /\ WellFormed(html)
    /\ \E k \in Boundaries(html) : h_is(html, k, "&") /\ UnitEnd(html, k) <= result
    /\ \E k \in Boundaries(html) : h_is(html, k, "<")
    /\ text_target >= 1
    /\ result < Len(html)

(***************************************************************************)
(* C8 as stated: on '&' the index moves just past the next ';', or to the  *)
(* end of the string when no ';' follows, and the text counter advances by *)
(* one.                                                                    *)
(***************************************************************************)
EntitySkipsToEndOfString ==
    prev.branch = "entity" =>
        /\ text_count = prev.text_count + 1
        /\ \/ /\ i - 1 >= prev.i /\ html[i] = ";"
              /\ \A j \in prev.i .. i - 2 : html[j + 1] # ";"
           \/ /\ \A j \in prev.i .. Len(html) - 1 : html[j + 1] # ";"
              /\ i = Len(html)

(***************************************************************************)
(* C8 amended: on '&' the index moves just past the next ';', or past the  *)
(* '&' alone (one character) when no ';' follows, and the text counter     *)
(* advances by exactly one.                                                *)
(***************************************************************************)
EntitySkipsOneChar ==
    prev.branch = "entity" =>
        /\ text_count = prev.text_count + 1
        /\ \/ /\ i - 1 >= prev.i /\ html[i] = ";"
              /\ \A j \in prev.i .. i - 2 : html[j + 1] # ";"
           \/ /\ \A j \in prev.i .. Len(html) - 1 : html[j + 1] # ";"
              /\ i = prev.i + 1

EntitySkipWitness ==
    /\ prev.branch = "entity"
    /\ \A j \in prev.i .. Len(html) - 1 : html[j + 1] # ";"
    /\ i = prev.i + 1
    /\ i < Len(html)

EntitySkipTerminatedWitness ==
    /\ prev.branch = "entity"
    /\ i > prev.i + 2
    /\ html[i] = ";"

(***************************************************************************)
(* _split_fade_paragraph (Fade Splitter).                                  *)
(***************************************************************************)
\* str.rstrip() / str.lstrip() / str.strip()
RECURSIVE RStrip(_)
RStrip(s) ==
    IF Len(s) > 0 /\ IsSpace(s[Len(s)]) THEN RStrip(SubSeq(s, 1, Len(s) - 1)) ELSE s

RECURSIVE LStrip(_)
LStrip(s) ==
    IF Len(s) > 0 /\ IsSpace(s[1]) THEN LStrip(SubSeq(s, 2, Len(s))) ELSE s

Strip(s) == LStrip(RStrip(s))

\* [.!?]
IsTerminator(c) == c \in {".", "!", "?"}

\* $ without re.MULTILINE: the end of the string, or just before a final newline
AtDollar(s, k) == k = Len(s) \/ (k = Len(s) - 1 /\ s[k + 1] = "\n")

\* [m.end() for m in re.finditer(r'[.!?](?:\s|$)', plain_text)], scanning from k
RECURSIVE SentenceEndsFrom(_, _)
SentenceEndsFrom(s, k) ==
    IF k >= Len(s) THEN <<>>
    ELSE IF IsTerminator(s[k + 1]) /\ k + 1 < Len(s) /\ IsSpace(s[k + 2])
    THEN <<k + 2>> \o SentenceEndsFrom(s, k + 2)
    ELSE IF IsTerminator(s[k + 1]) /\ AtDollar(s, k + 1)
    THEN <<k + 1>> \o SentenceEndsFrom(s, k + 1)
    ELSE SentenceEndsFrom(s, k + 1)

\* first index >= k whose character is (sp = TRUE) / is not (sp = FALSE) whitespace, else len(s)
RECURSIVE SkipWhile(_, _, _)
SkipWhile(s, k, sp) ==
    IF k < Len(s) /\ IsSpace(s[k + 1]) = sp THEN SkipWhile(s, k + 1, sp) ELSE k

RECURSIVE WordEndsNeedingSpace(_, _)
WordEndsNeedingSpace(s, k) ==
    LET start == SkipWhile(s, k, TRUE)
        word  == SkipWhile(s, start, FALSE)
        stop  == SkipWhile(s, word, TRUE)
    IN  IF start >= Len(s) THEN <<>>
        ELSE (IF stop > word THEN <<stop>> ELSE <<>>) \o WordEndsNeedingSpace(s, stop)

\* [m.end() for m in re.finditer(r'\S+\s*', plain_text)], scanning from k
RECURSIVE WordEndsFrom(_, _)
WordEndsFrom(s, k) ==
    LET start == SkipWhile(s, k, TRUE)
        stop  == SkipWhile(s, SkipWhile(s, start, FALSE), TRUE)
    IN  IF start >= Len(s) THEN <<>> ELSE <<stop>> \o WordEndsFrom(s, stop)

\* min(positions, key=lambda p: abs(p - mid)): the first of the minimal ones
MinByKeyLast(positions, mid) ==
    LET key(j) == Abs(positions[j] - mid)
        best   == MinOf({key(j) : j \in DOMAIN positions})
    IN  positions[MaxOf({j \in DOMAIN positions : key(j) = best})]

MinByKey(positions, mid) ==
    LET key(j) == Abs(positions[j] - mid)
        best   == MinOf({key(j) : j \in DOMAIN positions})
    IN  positions[MinOf({j \in DOMAIN positions : key(j) = best})]

\* lines 1229-1241: the split offset in the plain text, and the branch that chose it
SplitPosWordsFirst(plain_text) ==
    LET mid           == Len(plain_text) \div 2
        sentence_ends == SentenceEndsFrom(plain_text, 0)
        word_ends     == WordEndsFrom(plain_text, 0)
    IN  IF word_ends # <<>>
        THEN [mid |-> mid, split_pos |-> MinByKey(word_ends, mid), branch |-> "word"]
        ELSE IF sentence_ends # <<>>
        THEN [mid |-> mid, split_pos |-> MinByKey(sentence_ends, mid), branch |-> "sentence"]
        ELSE [mid |-> mid, split_pos |-> mid, branch |-> "mid"]

SplitPos(plain_text) ==
    LET mid           == Len(plain_text) \div 2
        sentence_ends == SentenceEndsFrom(plain_text, 0)
        word_ends     == WordEndsFrom(plain_text, 0)
    IN  IF sentence_ends # <<>>
        THEN [mid |-> mid, split_pos |-> MinByKey(sentence_ends, mid), branch |-> "sentence"]
        ELSE IF word_ends # <<>>
        THEN [mid |-> mid, split_pos |-> MinByKey(word_ends, mid), branch |-> "word"]
        ELSE [mid |-> mid, split_pos |-> mid, branch |-> "mid"]

\* the whole function: the pair returned and the locals at the return
split_fade_paragraph(e) ==
    LET inner_html == e.inner_html
        plain_text == e.plain_text
    IN  IF Strip(plain_text) = <<>>
        THEN [first |-> inner_html, second |-> <<>>,
              locals |-> [mid |-> -1, split_pos |-> -1, branch |-> "blank", html_pos |-> -1]]
        ELSE LET sp       == SplitPos(plain_text)
                 html_pos == text_pos_to_html_pos(inner_html, sp.split_pos)
             IN  [first  |-> RStrip(Slice(inner_html, 0, html_pos)),
                  second |-> LStrip(Slice(inner_html, html_pos, Len(inner_html))),
                  locals |-> [mid |-> sp.mid, split_pos |-> sp.split_pos,
                              branch |-> sp.branch, html_pos |-> html_pos]]

(***************************************************************************)
(* Block elements as the parser hands them over: a sequence of units, each *)
(* with its serialised markup (el.decode_contents()) and the text it       *)
(* contributes (el.get_text()): a tag contributes nothing, an entity one   *)
(* character.                                                              *)
(***************************************************************************)
FadeUnits ==
    { [markup |-> <<"a">>, text |-> <<"a">>],
      [markup |-> <<" ">>, text |-> <<" ">>],
      [markup |-> <<".", " ">>, text |-> <<".", " ">>],
      [markup |-> <<"!">>, text |-> <<"!">>],
      [markup |-> <<"<", "b", ">">>, text |-> <<>>],
      [markup |-> <<"&", "a", "m", "p", ";">>, text |-> <<"&">>] }

RECURSIVE decode_contents(_)
decode_contents(units) ==
    IF units = <<>> THEN <<>> ELSE units[1].markup \o decode_contents(Tail(units))

RECURSIVE get_text(_)
get_text(units) ==
    IF units = <<>> THEN <<>> ELSE units[1].text \o get_text(Tail(units))

Element(units) == [inner_html |-> decode_contents(units), plain_text |-> get_text(units)]

(***************************************************************************)
(* SpecFade: one _split_fade_paragraph call per behaviour.                 *)
(***************************************************************************)
InitFade ==
    /\ el \in {Element(u) : u \in StrSet(FadeUnits, MaxUnits)}
    /\ html = el.inner_html
    /\ pc = "start"
    /\ result = None
    /\ locals = None
    /\ inline_graphs = <<>>
    /\ MapperIdle
    /\ TreeIdle

SplitBlank ==
    /\ pc = "start"
    /\ Strip(el.plain_text) = <<>>
    /\ LET r == split_fade_paragraph(el)
       IN  /\ result' = <<r.first, r.second>>
           /\ locals' = r.locals
    /\ pc' = "done"
    /\ UNCHANGED <<html, el, inline_graphs, treeVars, mapperVars>>

SplitText ==
    /\ pc = "start"
    /\ Strip(el.plain_text) # <<>>
    /\ LET r == split_fade_paragraph(el)
       IN  /\ result' = <<r.first, r.second>>
           /\ locals' = r.locals
    /\ pc' = "done"
    /\ UNCHANGED <<html, el, inline_graphs, treeVars, mapperVars>>

NextFade == SplitBlank \/ SplitText

SpecFade == InitFade /\ [][NextFade]_vars

(***************************************************************************)
(* C4: for a block whose text is non-blank the inner markup is cut at one  *)
(* offset p: the results are inner[:p] without trailing whitespace and     *)
(* inner[p:] without leading whitespace, so first + whitespace + second is *)
(* the inner markup, and p is a unit boundary: never strictly inside a tag *)
(* or an entity.                                                           *)
(***************************************************************************)
IsBlank(s) == \A k \in DOMAIN s : IsSpace(s[k])

FadeSplitComplete ==
    (pc = "done" /\ ~IsBlank(el.plain_text)) =>
        LET inner == el.inner_html
            p     == locals.html_pos
        IN  /\ p \in 0 .. Len(inner)
            /\ p \in Boundaries(inner)
            /\ \E a \in 0 .. p, b \in p .. Len(inner) :
                  /\ result[1] = Slice(inner, 0, a)
                  /\ result[2] = Slice(inner, b, Len(inner))
                  /\ IsBlank(Slice(inner, a, b))
                  /\ a > 0 => ~IsSpace(inner[a])
                  /\ b < Len(inner) => ~IsSpace(inner[b + 1])

FadeSplitWitness ==
    /\ pc = "done"
    /\ ~IsBlank(el.plain_text)
    /\ Len(result[1]) + Len(result[2]) < Len(el.inner_html)
    /\ result[1] # <<>> /\ result[2] # <<>>
    /\ Find(result[1], "&", 0) >= 0
    /\ Find(el.inner_html, "<", 0) >= 0

(***************************************************************************)
(* C9: with mid = len(text) // 2, when the text has a sentence terminator  *)
(* followed by whitespace or the end of the text the split offset is the   *)
(* sentence end nearest to mid, the earliest on a tie; word ends are used, *)
(* by the same rule, only when there is no sentence end.                   *)
(***************************************************************************)
\* the offsets just past a terminator and the whitespace character after it
SentenceEndSet(s) ==
    {k + 2 : k \in {j \in 0 .. Len(s) - 2 : IsTerminator(s[j + 1]) /\ IsSpace(s[j + 2])}}
        \cup {k \in {Len(s)} : k > 0 /\ IsTerminator(s[k])}

\* the offsets where the whitespace run after a word ends
WordEndSet(s) ==
    {e \in 1 .. Len(s) :
        /\ \E j \in 1 .. e : ~IsSpace(s[j])
        /\ e < Len(s) => (IsSpace(s[e]) /\ ~IsSpace(s[e + 1]))}

NearestTo(S, mid, p) ==
    /\ p \in S
    /\ \A q \in S : \/ Abs(p - mid) < Abs(q - mid)
                     \/ (Abs(p - mid) = Abs(q - mid) /\ p <= q)

FadeSplitNearestSentence ==
    (pc = "done" /\ ~IsBlank(el.plain_text)) =>
        LET text == el.plain_text
            mid  == Len(text) \div 2
        IN  IF SentenceEndSet(text) # {}
            THEN NearestTo(SentenceEndSet(text), mid, locals.split_pos)
            ELSE NearestTo(WordEndSet(text), mid, locals.split_pos)

\* two sentence ends at the same distance on either side of mid
FadeSplitTieWitness ==
    /\ pc = "done"
    /\ ~IsBlank(el.plain_text)
    /\ \E q \in SentenceEndSet(el.plain_text) :
          /\ q > locals.split_pos
          /\ Abs(q - locals.mid) = Abs(locals.split_pos - locals.mid)
    /\ WordEndSet(el.plain_text) # SentenceEndSet(el.plain_text)

FadeSplitWordWitness ==
    /\ pc = "done"
    /\ locals.branch = "word"
    /\ Cardinality(WordEndSet(el.plain_text)) >= 2

(***************************************************************************)
(* _split_at_first_heading.                                                *)
(***************************************************************************)
\* re.search(r'<h[12][\s>]', html, re.IGNORECASE) matches at index k
HeadingAtCaseSensitive(h, k) ==
    /\ k + 3 < Len(h)
    /\ h[k + 1] = "<"
    /\ h[k + 2] = "h"
    /\ h[k + 3] \in {"1", "2"}
    /\ (IsSpace(h[k + 4]) \/ h[k + 4] = ">")

HeadingAt(h, k) ==
    /\ k + 3 < Len(h)
    /\ h[k + 1] = "<"
    /\ Lower(h[k + 2]) = "h"
    /\ h[k + 3] \in {"1", "2"}
    /\ (IsSpace(h[k + 4]) \/ h[k + 4] = ">")

\* m.start() of the first match, or -1 when re.search returns None
HeadingSearch(h) ==
    LET hits == {k \in 0 .. Len(h) - 1 : HeadingAt(h, k)}
    IN  IF hits = {} THEN -1 ELSE MinOf(hits)

split_at_first_heading(h) ==
    IF h = <<>> THEN <<<<>>, <<>>>>
    ELSE LET start == HeadingSearch(h)
         IN  IF start >= 0
             THEN <<Slice(h, 0, start), Slice(h, start, Len(h))>>
             ELSE <<h, <<>>>>

(***************************************************************************)
(* SpecHeading: one _split_at_first_heading call per behaviour, on a body  *)
(* fragment put together from pieces of markup: headings in both cases,    *)
(* with '>' or whitespace after the name, and near misses (h3, a cut-off   *)
(* '<h1', a closing tag).                                                  *)
(***************************************************************************)
HeadingPieces ==
    { <<"<", "h", "1", ">">>,
      <<"<", "H", "2", " ">>,
      <<"<", "h", "3", ">">>,
      <<"<", "h", "1">>,
      <<"<", "/", "h", "1", ">">>,
      <<"<", "p", ">">>,
      <<"a">>,
      <<">">> }

InitHeading ==
    /\ html \in {Concat(parts) : parts \in StrSet(HeadingPieces, MaxPieces)}
    /\ pc = "start"
    /\ result = None
    /\ el = None
    /\ locals = None
    /\ inline_graphs = <<>>
    /\ MapperIdle
    /\ TreeIdle

SplitEmptyFragment ==
    /\ pc = "start"
    /\ html = <<>>
    /\ result' = split_at_first_heading(html)
    /\ pc' = "done"
    /\ UNCHANGED <<html, el, locals, inline_graphs, treeVars, mapperVars>>

SplitAtHeading ==
    /\ pc = "start"
    /\ html # <<>>
    /\ HeadingSearch(html) >= 0
    /\ result' = split_at_first_heading(html)
    /\ pc' = "done"
    /\ UNCHANGED <<html, el, locals, inline_graphs, treeVars, mapperVars>>

SplitNoHeading ==
    /\ pc = "start"
    /\ html # <<>>
    /\ HeadingSearch(html) < 0
    /\ result' = split_at_first_heading(html)
    /\ pc' = "done"
    /\ UNCHANGED <<html, el, locals, inline_graphs, treeVars, mapperVars>>

NextHeading == SplitEmptyFragment \/ SplitAtHeading \/ SplitNoHeading

SpecHeading == InitHeading /\ [][NextHeading]_vars

(***************************************************************************)
(* C5: _split_at_first_heading returns (intro, main) with intro + main     *)
(* equal to the fragment; main is empty or begins at an <h1 / <h2 opening  *)
(* tag in either case, no such opening tag begins inside intro, and a      *)
(* fragment without any h1/h2 opening tag comes back as (fragment, '').    *)
(***************************************************************************)
\* an h1/h2 opening tag begins at index k of s: '<', h or H, 1 or 2, then '>' or whitespace
OpensHeading(s, k) ==
    /\ k + 4 <= Len(s)
    /\ SubSeq(s, k + 1, k + 3) \in {<<"<", c, d>> : c \in {"h", "H"}, d \in {"1", "2"}}
    /\ s[k + 4] \in {">", " ", "\t", "\n", "\r"}

HeadingSplitCovers ==
    pc = "done" =>
        LET intro == result[1]
            main  == result[2]
        IN  /\ intro \o main = html
            /\ main = <<>> \/ OpensHeading(main, 0)
            /\ \A k \in 0 .. Len(intro) - 1 : ~OpensHeading(html, k)
            /\ (\A k \in 0 .. Len(html) - 1 : ~OpensHeading(html, k)) => (intro = html /\ main = <<>>)

HeadingSplitWitness ==
    /\ pc = "done"
    /\ result[1] # <<>>
    /\ Find(result[1], "<", 0) >= 0
    /\ OpensHeading(result[2], 0)
    /\ result[2][2] = "H"
    /\ \E k \in 1 .. Len(result[2]) - 1 : OpensHeading(result[2], k)

(***************************************************************************)
(* _escape_attr and _replace_graph_placeholders (Placeholder Resolver).    *)
(***************************************************************************)
\* value.replace('&', '&amp;').replace('"', '&quot;').replace('<', '&lt;').replace('>', '&gt;')
EscapeChar(c) ==
    CASE c = "&"  -> <<"&", "a", "m", "p", ";">>
      [] c = "\"" -> <<"&", "q", "u", "o", "t", ";">>
      [] c = "<"  -> <<"&", "l", "t", ";">>
      [] c = ">"  -> <<"&", "g", "t", ";">>
      [] OTHER    -> <<c>>

RECURSIVE escape_attr(_)
escape_attr(value) ==
    IF value = <<>> THEN <<>> ELSE EscapeChar(value[1]) \o escape_attr(Tail(value))

DigitSeq == <<"0", "1", "2", "3", "4", "5", "6", "7", "8", "9">>

DigitValue(c) == (CHOOSE d \in DOMAIN DigitSeq : DigitSeq[d] = c) - 1

\* int(m.group(1)) of a string of decimal digits
RECURSIVE ParseInt(_)
ParseInt(digits) ==
    IF digits = <<>> THEN 0
    ELSE 10 * ParseInt(SubSeq(digits, 1, Len(digits) - 1)) + DigitValue(digits[Len(digits)])

\* str(n) for n >= 0
RECURSIVE FormatInt(_)
FormatInt(n) ==
    IF n < 10 THEN <<DigitSeq[n + 1]>> ELSE FormatInt(n \div 10) \o <<DigitSeq[(n % 10) + 1]>>

\* the fixed parts of the image block, lines 1271-1274
BlockHead == "<div style=\"position: relative; display: inline-block; width: 100%; margin: 16px 0;\"><img alt=\""

BlockMid == "\" class=\"fluid\" src=\""

BlockTail == "\" style=\"width: 100%; max-width: 552px; height: auto; display: block; border-radius: 8px;\"></div>"

ImageBlock(alt, url) == <<BlockHead>> \o alt \o <<BlockMid>> \o url \o <<BlockTail>>

GraphPrefix == <<"[", "[", "G", "R", "A", "P", "H", "_">>

\* end of the run of \d from k on
RECURSIVE DigitsEnd(_, _)
DigitsEnd(h, k) == IF k < Len(h) /\ h[k + 1] \in Digits THEN DigitsEnd(h, k + 1) ELSE k

\* r'\[\[GRAPH_(\d+)\]\]' matched at k: [start of group 1, end of group 1), or <<>> when it does not match
GraphMatch(h, k) ==
    LET d0 == k + Len(GraphPrefix)
        d1 == DigitsEnd(h, d0)
    IN  IF /\ d0 <= Len(h)
           /\ SubSeq(h, k + 1, d0) = GraphPrefix
           /\ d1 > d0
           /\ d1 + 2 <= Len(h)
           /\ h[d1 + 1] = "]" /\ h[d1 + 2] = "]"
        THEN <<d0, d1>>
        ELSE <<>>

\* list[idx] of Python: a negative idx counts from the end; <<>> stands for IndexError
PyGetItem(list, idx) ==
    LET j == IF idx < 0 THEN idx + Len(list) ELSE idx
    IN  IF j >= 0 /\ j < Len(list) THEN <<list[j + 1]>> ELSE <<>>

\* graph.get(key, default) on a descriptor: a missing key is has_<key> = FALSE
GetUrl(graph) == IF graph.has_url THEN graph.url ELSE <<>>

GetAlt(graph, n) ==
    IF graph.has_alt THEN graph.alt ELSE <<"G", "r", "a", "p", "h", " ">> \o FormatInt(n)

\* replace_graph(m) for the match text tok with group 1 = digits:
\* [raised, text]; raised is the IndexError of inline_graphs[idx]
replace_graph_off_by_one(tok, digits, graphs) ==
    LET n   == ParseInt(digits)
        idx == n - 1
    IN  IF idx > Len(graphs)
        THEN [raised |-> FALSE, text |-> tok]
        ELSE LET got == PyGetItem(graphs, idx)
             IN  IF got = <<>>
                 THEN [raised |-> TRUE, text |-> <<>>]
                 ELSE [raised |-> FALSE,
                       text |-> ImageBlock(escape_attr(GetAlt(got[1], n)), escape_attr(GetUrl(got[1])))]

replace_graph(tok, digits, graphs) ==
    LET n   == ParseInt(digits)
        idx == n - 1
    IN  IF idx >= Len(graphs)
        THEN [raised |-> FALSE, text |-> tok]
        ELSE LET got == PyGetItem(graphs, idx)
             IN  IF got = <<>>
                 THEN [raised |-> TRUE, text |-> <<>>]
                 ELSE [raised |-> FALSE,
                       text |-> ImageBlock(escape_attr(GetAlt(got[1], n)), escape_attr(GetUrl(got[1])))]

\* re.sub(pattern, replace_graph, html) from index k on: the matches are taken left
\* to right without overlap; an exception in the callback ends the call
RECURSIVE GraphSubFrom(_, _, _)
GraphSubFrom(h, k, graphs) ==
    IF k >= Len(h) THEN [raised |-> FALSE, text |-> <<>>]
    ELSE LET m == GraphMatch(h, k)
         IN  IF m = <<>>
             THEN LET rest == GraphSubFrom(h, k + 1, graphs)
                  IN  [raised |-> rest.raised, text |-> <<h[k + 1]>> \o rest.text]
             ELSE LET rep  == replace_graph(Slice(h, k, m[2] + 2), Slice(h, m[1], m[2]), graphs)
                      rest == IF rep.raised THEN rep ELSE GraphSubFrom(h, m[2] + 2, graphs)
                  IN  [raised |-> rest.raised, text |-> rep.text \o rest.text]

replace_graph_placeholders(h, graphs) == GraphSubFrom(h, 0, graphs)

(***************************************************************************)
(* SpecGraph: one _replace_graph_placeholders call per behaviour.  The     *)
(* markup is put together from whole tokens, parts of tokens and text; a   *)
(* descriptor has a url and an alt, or a url only.                         *)
(***************************************************************************)
GraphToken(d) == GraphPrefix \o d \o <<"]", "]">>

GraphPieces ==
    { GraphToken(<<"1">>), GraphToken(<<"2">>), GraphToken(<<"0">>),
      GraphPrefix, <<"3">>, <<"]", "]">>, <<"x">> }

Descriptors ==
    { [has_url |-> TRUE, url |-> <<"u">>, has_alt |-> TRUE, alt |-> <<"a", "&">>],
      [has_url |-> TRUE, url |-> <<"v">>, has_alt |-> FALSE, alt |-> <<>>] }

InitGraph ==
    /\ html \in {Concat(parts) : parts \in StrSet(GraphPieces, MaxTokens)}
    /\ inline_graphs \in StrSet(Descriptors, MaxImages)
    /\ pc = "start"
    /\ result = None
    /\ el = None
    /\ locals = None
    /\ MapperIdle
    /\ TreeIdle

ReplaceGraphs ==
    /\ pc = "start"
    /\ LET r == replace_graph_placeholders(html, inline_graphs)
       IN  /\ ~r.raised
           /\ result' = r.text
    /\ pc' = "done"
    /\ UNCHANGED <<html, inline_graphs, treeVars, el, locals, mapperVars>>

ReplaceGraphsIndexError ==
    /\ pc = "start"
    /\ replace_graph_placeholders(html, inline_graphs).raised
    /\ pc' = "raised"
    /\ UNCHANGED <<html, inline_graphs, treeVars, result, el, locals, mapperVars>>

NextGraph == ReplaceGraphs \/ ReplaceGraphsIndexError

SpecGraph == InitGraph /\ [][NextGraph]_vars

(***************************************************************************)
(* Markup read as items, independently of the substitution: a token        *)
(* [[GRAPH_<digits>]], an image block, or one character.                   *)
(***************************************************************************)
\* the token starting at k ends at e (exclusive)
TokenSpans(s, k, e) ==
    /\ e - k >= Len(GraphPrefix) + 3
    /\ e <= Len(s)
    /\ SubSeq(s, k + 1, k + Len(GraphPrefix)) = GraphPrefix
    /\ SubSeq(s, e - 1, e) = <<"]", "]">>
    /\ \A j \in k + Len(GraphPrefix) + 1 .. e - 2 : s[j] \in Digits

\* the image block starting at k ends at e (exclusive), with the alt text up to mid
BlockSpans(s, k, mid, e) ==
    /\ k < mid /\ mid < e /\ e <= Len(s)
    /\ s[k + 1] = BlockHead /\ s[mid + 1] = BlockMid /\ s[e] = BlockTail
    /\ \A j \in k + 2 .. e - 1 : j # mid + 1 => s[j] \notin {BlockHead, BlockMid, BlockTail}

RECURSIVE ItemsFrom(_, _)
ItemsFrom(s, k) ==
    LET close == Find(s, "]", k) + 2
        mid   == Find(s, BlockMid, k)
        tail  == Find(s, BlockTail, k) + 1
    IN  IF k >= Len(s) THEN <<>>
        ELSE IF TokenSpans(s, k, close)
        THEN <<[kind |-> "token", a |-> SubSeq(s, k + Len(GraphPrefix) + 1, close - 2), b |-> <<>>]>>
                 \o ItemsFrom(s, close)
        ELSE IF BlockSpans(s, k, mid, tail)
        THEN <<[kind |-> "image", a |-> SubSeq(s, k + 2, mid), b |-> SubSeq(s, mid + 2, tail - 1)]>>
                 \o ItemsFrom(s, tail)
        ELSE <<[kind |-> "char", a |-> <<s[k + 1]>>, b |-> <<>>]>> \o ItemsFrom(s, k + 1)

Items(s) == ItemsFrom(s, 0)

\* the numbers of the tokens among items
NumbersOf(items) == {ParseInt(items[j].a) : j \in {j \in DOMAIN items : items[j].kind = "token"}}

TokenNumbers(s) == NumbersOf(Items(s))

\* the image block of descriptor number n (1-based) of the list
BlockOf(graphs, n) ==
    [kind |-> "image",
     a |-> escape_attr(IF graphs[n].has_alt THEN graphs[n].alt
                       ELSE <<"G", "r", "a", "p", "h", " ">> \o FormatInt(n)),
     b |-> escape_attr(IF graphs[n].has_url THEN graphs[n].url ELSE <<>>)]

(***************************************************************************)
(* C2: for markup whose tokens are [[GRAPH_1]] .. [[GRAPH_k]] and a list   *)
(* of m images, no token is left when m >= k; when m < k exactly the       *)
(* tokens numbered m+1 .. k are left, verbatim and in place, and every     *)
(* token numbered <= m has become the image block of its descriptor.       *)
(***************************************************************************)
GraphRoundTrip ==
    LET inp == Items(html)
        k   == Cardinality(TokenNumbers(html))
        m   == Len(inline_graphs)
    IN  (k >= 1 /\ TokenNumbers(html) = 1 .. k) =>
            /\ pc # "raised"
            /\ pc = "done" =>
                LET out == Items(result)
                IN  /\ Len(out) = Len(inp)
                    /\ \A j \in DOMAIN inp :
                          IF inp[j].kind = "token" /\ ParseInt(inp[j].a) <= m
                          THEN out[j] = BlockOf(inline_graphs, ParseInt(inp[j].a))
                          ELSE out[j] = inp[j]
                    /\ TokenNumbers(result) = m + 1 .. k
                    /\ m >= k => TokenNumbers(result) = {}

\* tokens 1 and 2 with one image: GRAPH_2 stays, GRAPH_1 is an image block
GraphRoundTripWitness ==
    /\ pc = "done"
    /\ TokenNumbers(html) = {1, 2}
    /\ Len(inline_graphs) = 1
    /\ TokenNumbers(result) = {2}
    /\ \E j \in DOMAIN Items(result) : Items(result)[j].kind = "image"
    /\ \E j \in DOMAIN Items(result) : Items(result)[j].kind = "char"

(***************************************************************************)
(* C3 as stated: for every token [[GRAPH_n]], n >= 0, and every list, n = 0*)
(* and the empty list included, the token is replaced only if descriptor   *)
(* n exists (1 <= n <= length of the list) and is otherwise left           *)
(* untouched; the call never raises.                                       *)
(***************************************************************************)
GraphReplacedOnlyIfDescriptorExists ==
    /\ pc # "raised"
    /\ pc = "done" =>
        LET inp == Items(html)
            out == Items(result)
            m   == Len(inline_graphs)
        IN  /\ Len(out) = Len(inp)
            /\ \A j \in DOMAIN inp :
                  IF inp[j].kind = "token" /\ ParseInt(inp[j].a) \in 1 .. m
                  THEN out[j] = BlockOf(inline_graphs, ParseInt(inp[j].a))
                  ELSE out[j] = inp[j]

(***************************************************************************)
(* Documents of the Compatibility Fixer.  A serialised document is kept as *)
(* the sequence of its tags and text runs: an opening or void tag with its *)
(* attributes in source order, a closing tag, or a text run.  Attribute    *)
(* values and text are character strings, so the patterns the passes apply *)
(* to a style value are matched character by character; a pattern that    *)
(* picks a tag or an attribute of it is matched on the tag's name and on   *)
(* the attributes' names.                                                  *)
(***************************************************************************)
Attr(n, v) == [n |-> n, v |-> v]

Open(name, attrs) == [kind |-> "open", name |-> name, attrs |-> attrs, text |-> <<>>]

Void(name, attrs) == [kind |-> "void", name |-> name, attrs |-> attrs, text |-> <<>>]

Close(name) == [kind |-> "close", name |-> name, attrs |-> <<>>, text |-> <<>>]

Text(chars) == [kind |-> "text", name |-> "", attrs |-> <<>>, text |-> chars]

IsTag(tok) == tok.kind \in {"open", "void"}

HasAttr(tok, n) == \E j \in DOMAIN tok.attrs : tok.attrs[j].n = n

\* index of the first / last attribute named n
FirstAttr(tok, n) == MinOf({j \in DOMAIN tok.attrs : tok.attrs[j].n = n})

LastAttr(tok, n) == MaxOf({j \in DOMAIN tok.attrs : tok.attrs[j].n = n})

\* tag.get(n, '') / tag.get(n) or ''
GetAttr(tok, n) == IF HasAttr(tok, n) THEN tok.attrs[FirstAttr(tok, n)].v ELSE <<>>

SetAttrAt(tok, j, v) == [tok EXCEPT !.attrs[j].v = v]

\* tag[n] = v: the value is replaced in place, a new attribute goes last
SetAttr(tok, n, v) ==
    IF HasAttr(tok, n) THEN SetAttrAt(tok, FirstAttr(tok, n), v)
    ELSE [tok EXCEPT !.attrs = @ \o <<Attr(n, v)>>]

(***************************************************************************)
(* Pattern pieces shared by the string passes.                             *)
(***************************************************************************)
\* the literal lit stands at index k of s, compared as re.IGNORECASE does
LitAt(s, k, lit) ==
    /\ k >= 0
    /\ k + Len(lit) <= Len(s)
    /\ \A j \in 1..Len(lit) : Lower(s[k + j]) = Lower(lit[j])

\* \b at index k of s
WordBoundary(s, k) ==
    (k > 0 /\ k <= Len(s) /\ IsWord(s[k])) # (k < Len(s) /\ k >= 0 /\ IsWord(s[k + 1]))

\* (\b)name\s*: matched at k: the index just past the ':', or -1
PropAt(s, k, name, bounded) ==
    LET colon == SkipWhile(s, k + Len(name), TRUE)
    IN  IF /\ bounded => WordBoundary(s, k)
           /\ LitAt(s, k, name)
           /\ colon < Len(s)
           /\ s[colon + 1] = ":"
        THEN colon + 1 ELSE -1

\* end of the run of \d from k on, and whether "px" stands at k
PxAt(s, k) == LitAt(s, k, <<"p", "x">>)

(***************************************************************************)
(* _fix_iterable_heights.                                                  *)
(***************************************************************************)
\* (?:\d+\.\d+|[3-9]\d{2}|\d{4,})px matched at k: the index just past "px", or -1
HeightNumberAt(s, k) ==
    LET d1 == DigitsEnd(s, k)
        d2 == DigitsEnd(s, d1 + 1)
    IN  IF d1 > k /\ d1 < Len(s) /\ s[d1 + 1] = "." /\ d2 > d1 + 1 /\ PxAt(s, d2)
        THEN d2 + 2
        ELSE IF d1 - k = 3 /\ s[k + 1] \in {"3", "4", "5", "6", "7", "8", "9"} /\ PxAt(s, d1)
        THEN d1 + 2
        ELSE IF d1 - k >= 4 /\ PxAt(s, d1)
        THEN d1 + 2
        ELSE -1

\* height_re matched at k: the index just past the match, or -1
HeightReAt(s, k) ==
    LET colon == PropAt(s, k, <<"h", "e", "i", "g", "h", "t">>, TRUE)
    IN  IF colon < 0 THEN -1 ELSE HeightNumberAt(s, SkipWhile(s, colon, TRUE))

\* height_re.sub('height:auto', style) from index k on
RECURSIVE HeightSubFrom(_, _)
HeightSubFrom(s, k) ==
    IF k >= Len(s) THEN <<>>
    ELSE IF HeightReAt(s, k) >= 0
    THEN <<"h", "e", "i", "g", "h", "t", ":", "a", "u", "t", "o">> \o HeightSubFrom(s, HeightReAt(s, k))
    ELSE <<s[k + 1]>> \o HeightSubFrom(s, k + 1)

\* replace_heights(m) on the tag the outer pattern matched: its last style attribute
replace_heights(tok) ==
    IF IsTag(tok) /\ tok.name \in {"table", "tr", "td"} /\ HasAttr(tok, "style")
    THEN SetAttrAt(tok, LastAttr(tok, "style"), HeightSubFrom(tok.attrs[LastAttr(tok, "style")].v, 0))
    ELSE tok

fix_iterable_heights(doc) == [j \in DOMAIN doc |-> replace_heights(doc[j])]

(***************************************************************************)
(* SpecHeights: one _fix_iterable_heights call per behaviour, on one       *)
(* element whose style holds one declaration: a property, a numeral of up  *)
(* to MaxDigits digits with or without a fraction, and a unit.             *)
(***************************************************************************)
HeightElements == {"table", "tr", "td", "div"}

HeightProps ==
    { <<"h", "e", "i", "g", "h", "t">>,
      <<"w", "i", "d", "t", "h">> }

HeightDigits == {"0", "2", "3", "9"}

Fractions == {<<>>, <<".", "5">>}

HeightUnits == {<<"p", "x">>, <<"%">>}

\* a numeral: digits, then nothing or a fraction; at least one character
Numerals ==
    {n \in {d \o f : d \in StrSet(HeightDigits, MaxDigits), f \in Fractions} : n # <<>>}

Declaration(prop, num, unit) == prop \o <<":">> \o num \o unit

InitHeights ==
    /\ \E name \in HeightElements, prop \in HeightProps, num \in Numerals, unit \in HeightUnits :
          /\ html = <<Open(name, <<Attr("style", Declaration(prop, num, unit))>>)>>
          /\ locals = [name |-> name, prop |-> prop, num |-> num, unit |-> unit]
    /\ pc = "start"
    /\ result = None
    /\ el = None
    /\ inline_graphs = <<>>
    /\ MapperIdle
    /\ TreeIdle

FixHeights ==
    /\ pc = "start"
    /\ result' = fix_iterable_heights(html)
    /\ pc' = "done"
    /\ UNCHANGED <<html, locals, el, inline_graphs, treeVars, mapperVars>>

NextHeights == FixHeights

SpecHeights == InitHeights /\ [][NextHeights]_vars

(***************************************************************************)
(* The value a numeral denotes: its whole part, and whether it is written  *)
(* with a fraction.                                                        *)
(***************************************************************************)
WholeDigits(num) == SubSeq(num, 1, DigitsEnd(num, 0))

WholePart(num) == ParseInt(WholeDigits(num))

HasFraction(num) == DigitsEnd(num, 0) < Len(num)

\* the style of the one element after the call
StyleAfter == result[1].attrs[1].v

BecameAuto == StyleAfter = <<"h", "e", "i", "g", "h", "t", ":", "a", "u", "t", "o">>

IsPixelHeightOnCell ==
    /\ locals.name \in {"table", "tr", "td"}
    /\ locals.prop = <<"h", "e", "i", "g", "h", "t">>
    /\ locals.unit = <<"p", "x">>

(***************************************************************************)
(* C10 as stated: a pixel height on a table, tr or td becomes height:auto  *)
(* exactly when its value is non-integer (any magnitude) or an integer     *)
(* >= 300; every integer height from 0 to 299 is left unchanged.           *)
(***************************************************************************)
HeightAutoExactlyWhenFractionalOrLarge ==
    (pc = "done" /\ IsPixelHeightOnCell) =>
        /\ BecameAuto <=> (HasFraction(locals.num) \/ WholePart(locals.num) >= 300)
        /\ ~BecameAuto => result = html

(***************************************************************************)
(* What the pattern does decide (not a claim of its own): for numerals     *)
(* written without leading zeros and with a digit before the point, C10    *)
(* holds as stated; elements other than table, tr and td are unchanged.    *)
(***************************************************************************)
IsPlainNumeral(num) ==
    /\ WholeDigits(num) # <<>>
    /\ Len(WholeDigits(num)) > 1 => num[1] # "0"

HeightAutoForPlainNumerals ==
    pc = "done" =>
        /\ (IsPixelHeightOnCell /\ IsPlainNumeral(locals.num)) =>
              /\ BecameAuto <=> (HasFraction(locals.num) \/ WholePart(locals.num) >= 300)
              /\ ~BecameAuto => result = html
        /\ locals.name \notin {"table", "tr", "td"} => result = html

(***************************************************************************)
(* apply_email_fixes, the tree passes.  BeautifulSoup parses the document, *)
(* the passes edit tags in document order, and str(soup) writes it back;   *)
(* on a document already in BeautifulSoup's output form (balanced tags,    *)
(* lower-case names, double-quoted attributes, single spaces in class)     *)
(* parsing and writing change nothing but the tags the passes edit.        *)
(***************************************************************************)
\* 'display' in style.lower(), and the like: lit occurs somewhere in s
Contains(s, lit) == \E k \in 0..Len(s) : LitAt(s, k, lit)

\* tag.name = 'span'; tag['style'] = prefix + (tag.get('style') or '')
ToSpan(tok, names, prefix) ==
    IF tok.kind = "open" /\ tok.name \in names
    THEN SetAttr([tok EXCEPT !.name = "span"], "style", prefix \o GetAttr(tok, "style"))
    ELSE IF tok.kind = "close" /\ tok.name \in names
    THEN Close("span")
    ELSE tok

FontWeightBold == <<"f", "o", "n", "t", "-", "w", "e", "i", "g", "h", "t", ":", "b", "o", "l", "d", ";">>

FontStyleItalic == <<"f", "o", "n", "t", "-", "s", "t", "y", "l", "e", ":", "i", "t", "a", "l", "i", "c", ";">>

TextDecorationUnderline == <<"t", "e", "x", "t", "-", "d", "e", "c", "o", "r", "a", "t", "i", "o", "n", ":", "u", "n", "d", "e", "r", "l", "i", "n", "e", ";">>

DisplayBlock == <<"d", "i", "s", "p", "l", "a", "y", ":", "b", "l", "o", "c", "k", ";", "m", "a", "r", "g", "i", "n", ":", "0", " ", "a", "u", "t", "o", ";">>

\* passes 4-5 on one tag
FixImg(tok) ==
    IF IsTag(tok) /\ tok.name = "img"
    THEN LET styled == IF ~Contains(GetAttr(tok, "style"), <<"d", "i", "s", "p", "l", "a", "y">>)
                       THEN SetAttr(tok, "style", DisplayBlock \o GetAttr(tok, "style"))
                       ELSE tok
         IN  IF ~HasAttr(styled, "alt") THEN SetAttr(styled, "alt", <<>>) ELSE styled
    ELSE tok

\* index of the closing tag of the element opened at k (0 when it is never closed)
RECURSIVE ClosingFrom(_, _, _)
ClosingFrom(doc, j, depth) ==
    IF j > Len(doc) THEN 0
    ELSE IF doc[j].kind = "open" THEN ClosingFrom(doc, j + 1, depth + 1)
    ELSE IF doc[j].kind = "close"
    THEN IF depth = 1 THEN j ELSE ClosingFrom(doc, j + 1, depth - 1)
    ELSE ClosingFrom(doc, j + 1, depth)

Closing(doc, k) == ClosingFrom(doc, k + 1, 1)

\* pass 6: tag.decompose() for every script and iframe, from token k on
RECURSIVE DecomposeFrom(_, _)
DecomposeFrom(doc, k) ==
    IF k > Len(doc) THEN <<>>
    ELSE IF doc[k].kind = "open" /\ doc[k].name \in {"script", "iframe"}
    THEN IF Closing(doc, k) = 0 THEN <<>> ELSE DecomposeFrom(doc, Closing(doc, k) + 1)
    ELSE IF doc[k].kind = "void" /\ doc[k].name \in {"script", "iframe"}
    THEN DecomposeFrom(doc, k + 1)
    ELSE <<doc[k]>> \o DecomposeFrom(doc, k + 1)

\* the class attribute as BeautifulSoup holds it: the list of its words
RECURSIVE SplitWords(_, _)
SplitWords(s, k) ==
    LET a == SkipWhile(s, k, TRUE)
        b == SkipWhile(s, a, FALSE)
    IN  IF a >= Len(s) THEN <<>> ELSE <<Slice(s, a, b)>> \o SplitWords(s, b)

RECURSIVE JoinWords(_)
JoinWords(ws) ==
    IF ws = <<>> THEN <<>>
    ELSE IF Len(ws) = 1 THEN ws[1]
    ELSE ws[1] \o <<" ">> \o JoinWords(Tail(ws))

InList(ws, w) == \E j \in DOMAIN ws : ws[j] = w

\* re.search(r'\bpadding-top\s*:\s*0', style, re.I)
PaddingTopZero(style) ==
    \E k \in 0..Len(style) :
        LET c == PropAt(style, k, <<"p", "a", "d", "d", "i", "n", "g", "-", "t", "o", "p">>, TRUE)
        IN  c >= 0 /\ LitAt(style, SkipWhile(style, c, TRUE), <<"0">>)

\* re.search(r'\bpadding\s*:\s*0px?\b', style, re.I)
PaddingZero(style) ==
    \E k \in 0..Len(style) :
        LET c == PropAt(style, k, <<"p", "a", "d", "d", "i", "n", "g">>, TRUE)
            z == SkipWhile(style, c, TRUE)
        IN  /\ c >= 0
            /\ LitAt(style, z, <<"0", "p">>)
            /\ \/ LitAt(style, z + 2, <<"x">>) /\ WordBoundary(style, z + 3)
               \/ WordBoundary(style, z + 2)

TableBoxMobile == <<"t", "a", "b", "l", "e", "-", "b", "o", "x", "-", "m", "o", "b", "i", "l", "e">>

NoTopPad == <<"n", "o", "-", "t", "o", "p", "-", "p", "a", "d">>

\* pass 9 on one tag
FixTd(tok) ==
    LET classes == SplitWords(GetAttr(tok, "class"), 0)
    IN  IF /\ IsTag(tok) /\ tok.name = "td"
           /\ InList(classes, TableBoxMobile) /\ ~InList(classes, NoTopPad)
           /\ (PaddingTopZero(GetAttr(tok, "style")) \/ PaddingZero(GetAttr(tok, "style")))
        THEN SetAttr(tok, "class", JoinWords(classes \o <<NoTopPad>>))
        ELSE tok

\* str(soup): neighbouring text runs are written as one run
RECURSIVE Serialise(_)
Serialise(doc) ==
    IF Len(doc) < 2 THEN doc
    ELSE IF doc[1].kind = "text" /\ doc[2].kind = "text"
    THEN Serialise(<<Text(doc[1].text \o doc[2].text)>> \o SubSeq(doc, 3, Len(doc)))
    ELSE <<doc[1]>> \o Serialise(Tail(doc))

\* lines 1306-1343 of apply_email_fixes
tree_passes(doc) ==
    LET spans == [j \in DOMAIN doc |->
                    FixImg(ToSpan(ToSpan(ToSpan(doc[j],
                        {"strong", "b"}, FontWeightBold),
                        {"em", "i"}, FontStyleItalic),
                        {"u"}, TextDecorationUnderline))]
        kept == DecomposeFrom(spans, 1)
    IN  Serialise([j \in DOMAIN kept |-> FixTd(kept[j])])

(***************************************************************************)
(* _apply_link_fixes.                                                      *)
(***************************************************************************)
\* bool(re.search(r'\bname\s*:', style, re.I))
HasProp(style, name) == \E k \in 0..Len(style) : PropAt(style, k, name, TRUE) >= 0

\* name\s*:\s*([^;]+) matched at k: [start, end) of group 1, or <<>>.  When only
\* white space stands before the ';' or the end, \s* gives one space back to the group.
PropValueAt(s, k, name, bounded) ==
    LET c  == PropAt(s, k, name, bounded)
        sp == SkipWhile(s, c, TRUE)
        semi == Find(s, ";", sp)
    IN  IF c < 0 THEN <<>>
        ELSE IF sp < Len(s) /\ s[sp + 1] # ";"
        THEN <<sp, IF semi >= 0 THEN semi ELSE Len(s)>>
        ELSE IF sp > c THEN <<sp - 1, sp>>
        ELSE <<>>

\* re.search(name\s*:\s*([^;]+), s, re.I): m.group(1).strip(), or None
PropValue(s, name, bounded) ==
    LET hits == {k \in 0..Len(s) : PropValueAt(s, k, name, bounded) # <<>>}
        g == PropValueAt(s, MinOf(hits), name, bounded)
    IN  IF hits = {} THEN None ELSE Strip(Slice(s, g[1], g[2]))

FontSize == <<"f", "o", "n", "t", "-", "s", "i", "z", "e">>

Color == <<"c", "o", "l", "o", "r">>

TextDecoration == <<"t", "e", "x", "t", "-", "d", "e", "c", "o", "r", "a", "t", "i", "o", "n">>

\* the style sheet _inject_gmail_ios_css adds, kept as one unit of text; the only
\* pattern of the passes that matches inside it is the parent font-size scan,
\* whose last match in it is "font-size:16px"
GmailCss == "gmail_css"

\* the scan with any value accepted: font-size\s*:\s*([^;]+)
ParentFontSizeAtAnyUnit(s, k) ==
    LET g == PropValueAt(s, k, FontSize, FALSE)
    IN  IF g = <<>> THEN <<>> ELSE Strip(Slice(s, g[1], g[2]))

\* font-size\s*:\s*(\d+px) matched at k: group 1, or <<>>
ParentFontSizeAt(s, k) ==
    LET c  == PropAt(s, k, FontSize, FALSE)
        sp == SkipWhile(s, c, TRUE)
        d  == DigitsEnd(s, sp)
    IN  IF k < Len(s) /\ s[k + 1] = GmailCss THEN <<"1", "6", "p", "x">>
        ELSE IF c >= 0 /\ d > sp /\ PxAt(s, d) THEN Slice(s, sp, d + 2)
        ELSE <<>>

\* re.findall(r'font-size\s*:\s*(\d+px)', s, re.I)[-1], or <<>> when there is none
LastFontSize(s) ==
    LET hits == {k \in 0..Len(s) : ParentFontSizeAt(s, k) # <<>>}
    IN  IF hits = {} THEN <<>> ELSE ParentFontSizeAt(s, MaxOf(hits))

\* the same over one tag or text run: its attribute values in order, or its text
TokenFontSize(tok) ==
    LET hits == {j \in DOMAIN tok.attrs : LastFontSize(tok.attrs[j].v) # <<>>}
    IN  IF tok.kind = "text" THEN LastFontSize(tok.text)
        ELSE IF hits = {} THEN <<>>
        ELSE LastFontSize(tok.attrs[MaxOf(hits)].v)

\* parent_fz_matches[-1] over preceding = html[:m.start()], or '16px'
ParentFontSize(doc, k) ==
    LET hits == {j \in 1..(k - 1) : TokenFontSize(doc[j]) # <<>>}
    IN  IF hits = {} THEN <<"1", "6", "p", "x">> ELSE TokenFontSize(doc[MaxOf(hits)])

IsBlankText(tok) == tok.kind = "text" /\ \A j \in DOMAIN tok.text : IsSpace(tok.text[j])

\* _span_style: the style of a span that opens the content, or ''
SpanStyle(content) ==
    LET c1 == IF content # <<>> /\ IsBlankText(content[1]) THEN 2 ELSE 1
    IN  IF /\ c1 <= Len(content)
           /\ IsTag(content[c1]) /\ content[c1].name = "span"
           /\ HasAttr(content[c1], "style")
        THEN content[c1].attrs[LastAttr(content[c1], "style")].v
        ELSE <<>>

OrDefault(v, default) == IF v = None THEN default ELSE v

\* fix_link(m) for the anchor opened at k and closed at e
fix_link(doc, k, e) ==
    LET tok       == doc[k]
        content   == SubSeq(doc, k + 1, e - 1)
        style_m   == HasAttr(tok, "style")
        cur_style == GetAttr(tok, "style")
        has_color    == HasProp(cur_style, Color)
        has_text_dec == HasProp(cur_style, TextDecoration)
        span_style_0 == SpanStyle(content)
        already_fixed == /\ span_style_0 # <<>>
                         /\ HasProp(span_style_0, Color)
                         /\ HasProp(span_style_0, FontSize)
        add_str == (IF has_color THEN <<>> ELSE <<"c", "o", "l", "o", "r", ":", "#", "0", "0", "0", "0", "0", "0", ";">>)
                   \o (IF has_text_dec THEN <<>> ELSE <<"t", "e", "x", "t", "-", "d", "e", "c", "o", "r", "a", "t", "i", "o", "n", ":", "u", "n", "d", "e", "r", "l", "i", "n", "e", ";">>)
        new_a == IF add_str = <<>> THEN tok
                 ELSE IF style_m THEN SetAttrAt(tok, FirstAttr(tok, "style"), add_str \o cur_style)
                 ELSE [tok EXCEPT !.attrs = <<Attr("style", add_str)>> \o @]
        merged == add_str \o cur_style
        fz_m == PropValue(merged, FontSize, FALSE)
        c_m  == PropValue(merged, Color, TRUE)
        td_m == PropValue(merged, TextDecoration, FALSE)
        span_fz == IF fz_m # None THEN fz_m ELSE ParentFontSize(doc, k)
        span_style == <<"f", "o", "n", "t", "-", "s", "i", "z", "e", ":">> \o span_fz \o <<";", "c", "o", "l", "o", "r", ":">> \o OrDefault(c_m, <<"#", "0", "0", "0", "0", "0", "0">>)
                      \o <<";", "t", "e", "x", "t", "-", "d", "e", "c", "o", "r", "a", "t", "i", "o", "n", ":">> \o OrDefault(td_m, <<"u", "n", "d", "e", "r", "l", "i", "n", "e">>) \o <<";">>
        new_content == IF already_fixed THEN content
                       ELSE <<Open("span", <<Attr("style", span_style)>>)>> \o content \o <<Close("span")>>
    IN  IF ~HasAttr(tok, "href") THEN SubSeq(doc, k, e)
        ELSE IF has_color /\ has_text_dec /\ already_fixed THEN SubSeq(doc, k, e)
        ELSE <<new_a>> \o new_content \o <<Close("a")>>

\* the first </a> after token k (0 when there is none)
AnchorEnd(doc, k) ==
    LET ends == {j \in (k + 1)..Len(doc) : doc[j] = Close("a")}
    IN  IF ends = {} THEN 0 ELSE MinOf(ends)

\* re.sub(r'<a\b([^>]*)>([\s\S]*?)</a>', fix_link, html) from token k on
RECURSIVE LinkSubFrom(_, _)
LinkSubFrom(doc, k) ==
    IF k > Len(doc) THEN <<>>
    ELSE IF doc[k].kind = "open" /\ doc[k].name = "a" /\ AnchorEnd(doc, k) > 0
    THEN fix_link(doc, k, AnchorEnd(doc, k)) \o LinkSubFrom(doc, AnchorEnd(doc, k) + 1)
    ELSE <<doc[k]>> \o LinkSubFrom(doc, k + 1)

apply_link_fixes(doc) == LinkSubFrom(doc, 1)

(***************************************************************************)
(* _inject_gmail_ios_css.                                                  *)
(***************************************************************************)
\* re.sub(r'<body\b(?![^>]*\bid\s*=)([^>]*)>', r'<body id="body"\1>', html, count=1)
EnsureBodyId(doc) ==
    LET hits == {j \in DOMAIN doc : IsTag(doc[j]) /\ doc[j].name = "body" /\ ~HasAttr(doc[j], "id")}
    IN  IF hits = {} THEN doc
        ELSE [doc EXCEPT ![MinOf(hits)].attrs = <<Attr("id", <<"b", "o", "d", "y">>)>> \o @]

\* html.replace('</style>', gmail_css + '</style>', 1)
AppendCss(doc) ==
    LET hits == {j \in DOMAIN doc : doc[j] = Close("style")}
        p == MinOf(hits)
    IN  IF hits = {} THEN doc
        ELSE IF p > 1 /\ doc[p - 1].kind = "text"
        THEN [doc EXCEPT ![p - 1].text = @ \o <<GmailCss>>]
        ELSE SubSeq(doc, 1, p - 1) \o <<Text(<<GmailCss>>)>> \o SubSeq(doc, p, Len(doc))

inject_gmail_ios_css(doc) == AppendCss(EnsureBodyId(doc))

(***************************************************************************)
(* apply_email_fixes: the tree passes, then the three string passes.       *)
(***************************************************************************)
apply_email_fixes(doc) ==
    fix_iterable_heights(inject_gmail_ios_css(apply_link_fixes(tree_passes(doc))))

(***************************************************************************)
(* SpecFixes: apply_email_fixes runs on a document and then again on what  *)
(* it returned.  A document is an optional head with a style element, an   *)
(* optional body tag, and up to MaxElements elements taken from Elements.  *)
(***************************************************************************)
X == Text(<<"x">>)

Href == Attr("href", <<"u">>)

Elements ==
    { <<X>>,
      <<Open("b", <<>>), X, Close("b")>>,
      <<Open("em", <<Attr("style", <<"c", "o", "l", "o", "r", ":", "r", "e", "d">>)>>), X, Close("em")>>,
      <<Open("u", <<>>), X, Close("u")>>,
      <<Void("img", <<Attr("src", <<"u">>)>>)>>,
      <<Void("img", <<Attr("alt", <<"x">>), Attr("style", <<"d", "i", "s", "p", "l", "a", "y", ":", "i", "n", "l", "i", "n", "e">>)>>)>>,
      <<Open("script", <<>>), X, Close("script")>>,
      <<Open("td", <<Attr("class", TableBoxMobile), Attr("style", <<"p", "a", "d", "d", "i", "n", "g", "-", "t", "o", "p", ":", "0", ";", "h", "e", "i", "g", "h", "t", ":", "3", "0", "0", "p", "x">>)>>), X, Close("td")>>,
      <<Open("td", <<Attr("style", <<"p", "a", "d", "d", "i", "n", "g", ":", "0", ";", "h", "e", "i", "g", "h", "t", ":", "8", "1", ".", "5", "p", "x">>)>>), X, Close("td")>>,
      <<Open("a", <<Href>>), X, Close("a")>>,
      <<Open("a", <<Href, Attr("style", <<"c", "o", "l", "o", "r", ":", "r", "e", "d", ";", "f", "o", "n", "t", "-", "s", "i", "z", "e", ":", "1", "4", "p", "x">>)>>), Open("i", <<>>), X, Close("i"), Close("a")>>,
      <<Open("a", <<Attr("name", <<"n">>)>>), X, Close("a")>>,
      <<Open("p", <<Attr("style", <<"f", "o", "n", "t", "-", "s", "i", "z", "e", ":", " ", "1", "2", "p", "x">>)>>), Open("a", <<Href>>), X, Close("a"), Close("p")>> }

Heads ==
    { <<>>,
      <<Open("head", <<>>), Open("style", <<>>), Close("style"), Close("head")>>,
      <<Open("head", <<>>), Open("style", <<>>), Text(<<"p", "{", "f", "o", "n", "t", "-", "s", "i", "z", "e", ":", "1", "8", "p", "x", "}">>), Close("style"), Close("head")>> }

Bodies ==
    { <<>>,
      <<Open("body", <<>>)>>,
      <<Open("body", <<Attr("class", <<"c">>)>>)>>,
      <<Open("body", <<Attr("id", <<"m">>)>>)>> }

Document(head, body, elems) ==
    head \o body \o Concat(elems) \o (IF body = <<>> THEN <<>> ELSE <<Close("body")>>)

InitFixes ==
    /\ \E head \in Heads, body \in Bodies, elems \in StrSet(Elements, MaxElements) :
          html = Serialise(Document(head, body, elems))
    /\ pc = "start"
    /\ result = None
    /\ locals = None
    /\ el = None
    /\ inline_graphs = <<>>
    /\ MapperIdle
    /\ TreeIdle

\* fixed = apply_email_fixes(html)
FixOnce ==
    /\ pc = "start"
    /\ result' = apply_email_fixes(html)
    /\ pc' = "fixed"
    /\ UNCHANGED <<html, locals, el, inline_graphs, treeVars, mapperVars>>

\* apply_email_fixes(fixed)
FixAgain ==
    /\ pc = "fixed"
    /\ locals' = [again |-> apply_email_fixes(result)]
    /\ pc' = "refixed"
    /\ UNCHANGED <<html, result, el, inline_graphs, treeVars, mapperVars>>

NextFixes == FixOnce \/ FixAgain

SpecFixes == InitFixes /\ [][NextFixes]_vars

HasStyleBlock(doc) == \E j \in DOMAIN doc : doc[j] = Close("style")

(***************************************************************************)
(* C1 as stated: apply_email_fixes is idempotent, also on documents with a *)
(* style element and a body tag: running it on its own output returns that *)
(* output unchanged.                                                       *)
(***************************************************************************)
FixesIdempotent ==
    pc = "refixed" => locals.again = result

(***************************************************************************)
(* What the second run does change (not a claim of its own): nothing in a  *)
(* document that has no style element; only the text of the first style    *)
(* element, which grows by the injected sheet, in one that has.            *)
(***************************************************************************)
FixesIdempotentWithoutStyle ==
    (pc = "refixed" /\ ~HasStyleBlock(html)) => locals.again = result

FixesRepeatOnlyTheSheet ==
    (pc = "refixed" /\ HasStyleBlock(html)) =>
        /\ locals.again # result
        /\ Len(locals.again) = Len(result)
        /\ \A j \in DOMAIN result :
              locals.again[j] # result[j] =>
                 /\ result[j].kind = "text"
                 /\ locals.again[j] = Text(result[j].text \o <<GmailCss>>)

(***************************************************************************)
(* SpecLinks: _apply_link_fixes runs on a document holding one anchor, and *)
(* then again on what it returned.  The anchor has or lacks an href, has   *)
(* no style or a style of up to MaxDecls declarations, and holds plain     *)
(* text or a span; before it stand elements that may declare a font size.  *)
(***************************************************************************)
LinkDecls ==
    { <<"c", "o", "l", "o", "r", ":", "r", "e", "d">>,
      <<"b", "a", "c", "k", "g", "r", "o", "u", "n", "d", "-", "c", "o", "l", "o", "r", ":", "b", "l", "u", "e">>,
      <<"t", "e", "x", "t", "-", "d", "e", "c", "o", "r", "a", "t", "i", "o", "n", ":", "n", "o", "n", "e">>,
      <<"f", "o", "n", "t", "-", "s", "i", "z", "e", ":", "1", "4", "p", "x">>,
      <<"F", "o", "n", "t", "-", "S", "i", "z", "e", " ", ":", " ", "1", ".", "2", "e", "m">> }

RECURSIVE JoinDecls(_)
JoinDecls(ds) ==
    IF ds = <<>> THEN <<>>
    ELSE IF Len(ds) = 1 THEN ds[1]
    ELSE ds[1] \o <<";">> \o JoinDecls(Tail(ds))

\* the attributes of the anchor after href: no style, or a style of some declarations
LinkStyleAttrs ==
    {<<>>} \cup {<<Attr("style", JoinDecls(ds))>> : ds \in StrSet(LinkDecls, MaxDecls)}

BoldSpan == <<Open("span", <<Attr("style", FontWeightBold)>>), X, Close("span")>>

ItalicSpan == <<Text(<<" ">>), Open("span", <<Attr("style", FontStyleItalic \o <<"f", "o", "n", "t", "-", "s", "i", "z", "e", ":", "9", "p", "x">>)>>), X, Close("span")>>

LinkSpan == <<Open("span", <<Attr("style", <<"f", "o", "n", "t", "-", "s", "i", "z", "e", ":", "1", "2", "p", "x", ";", "c", "o", "l", "o", "r", ":", "r", "e", "d", ";">>)>>), X, Close("span")>>

LinkContents == {<<X>>, BoldSpan, ItalicSpan, LinkSpan}

Para(style) == Open("p", <<Attr("style", style)>>)

LinkPreceding ==
    { <<>>,
      <<Para(<<"m", "a", "r", "g", "i", "n", ":", "0">>)>>,
      <<Para(<<"f", "o", "n", "t", "-", "s", "i", "z", "e", ":", " ", "1", "2", "p", "x">>)>>,
      <<Para(<<"f", "o", "n", "t", "-", "s", "i", "z", "e", ":", "1", ".", "2", "e", "m">>)>>,
      <<Para(<<"f", "o", "n", "t", "-", "s", "i", "z", "e", ":", "1", "8", "p", "x">>), Para(<<"f", "o", "n", "t", "-", "s", "i", "z", "e", ":", "1", ".", "2", "e", "m">>)>>,
      <<Para(<<"f", "o", "n", "t", "-", "s", "i", "z", "e", ":", "1", ".", "2", "e", "m">>), Para(<<"c", "o", "l", "o", "r", ":", "r", "e", "d", ";", "f", "o", "n", "t", "-", "s", "i", "z", "e", ":", "1", "8", "p", "x">>)>> }

InitLinks ==
    /\ \E pre \in LinkPreceding, href \in BOOLEAN, style \in LinkStyleAttrs, content \in LinkContents :
          /\ el = [pre |-> pre, href |-> href, style |-> style, content |-> content]
          /\ html = pre \o <<Open("a", (IF href THEN <<Href>> ELSE <<Attr("name", <<"n">>)>>) \o style)>>
                        \o content \o <<Close("a")>>
    /\ pc = "start"
    /\ result = None
    /\ locals = None
    /\ inline_graphs = <<>>
    /\ MapperIdle
    /\ TreeIdle

\* fixed = _apply_link_fixes(html)
FixLinks ==
    /\ pc = "start"
    /\ result' = apply_link_fixes(html)
    /\ pc' = "fixed"
    /\ UNCHANGED <<html, el, locals, inline_graphs, treeVars, mapperVars>>

\* _apply_link_fixes(fixed)
FixLinksAgain ==
    /\ pc = "fixed"
    /\ locals' = [again |-> apply_link_fixes(result)]
    /\ pc' = "refixed"
    /\ UNCHANGED <<html, el, result, inline_graphs, treeVars, mapperVars>>

NextLinks == FixLinks \/ FixLinksAgain

SpecLinks == InitLinks /\ [][NextLinks]_vars

(***************************************************************************)
(* A style read as CSS reads it: declarations separated by ';', each a     *)
(* property name, a ':' and a value.                                       *)
(***************************************************************************)
RECURSIVE SplitOn(_, _)
SplitOn(s, c) ==
    IF Find(s, c, 0) < 0 THEN <<s>>
    ELSE <<Slice(s, 0, Find(s, c, 0))>> \o SplitOn(Slice(s, Find(s, c, 0) + 1, Len(s)), c)

LowerAll(s) == [k \in DOMAIN s |-> Lower(s[k])]

DeclName(d) == LowerAll(Strip(Slice(d, 0, Find(d, ":", 0))))

DeclText(d) == Strip(Slice(d, Find(d, ":", 0) + 1, Len(d)))

\* the indices of the declarations of property name in style
DeclsOf(style, name) ==
    LET ds == SplitOn(style, ";")
    IN  {j \in DOMAIN ds : Find(ds[j], ":", 0) >= 0 /\ DeclName(ds[j]) = name}

Declares(style, name) == DeclsOf(style, name) # {}

\* the value of the first declaration of property name in style
DeclaredValue(style, name) == DeclText(SplitOn(style, ";")[MinOf(DeclsOf(style, name))])

\* where the anchor stands in the document, and what it looked like
AnchorAt == Len(el.pre) + 1

AnchorStyle == IF el.style = <<>> THEN <<>> ELSE el.style[1].v

FormattingContent == el.content \in {<<X>>, BoldSpan, ItalicSpan}

AnchorAfter == result[AnchorAt]

WrapperAfter == result[AnchorAt + 1]

IsWrapper(tok) ==
    /\ tok.kind = "open" /\ tok.name = "span"
    /\ Declares(GetAttr(tok, "style"), FontSize)
    /\ Declares(GetAttr(tok, "style"), Color)
    /\ Declares(GetAttr(tok, "style"), TextDecoration)

\* the anchor was given the wrapper: span, old content, </span>, </a>
Wrapped ==
    /\ IsWrapper(WrapperAfter)
    /\ result = el.pre \o <<AnchorAfter, WrapperAfter>> \o el.content \o <<Close("span"), Close("a")>>

AnchorStyled ==
    LET after == GetAttr(AnchorAfter, "style")
    IN  /\ Declares(after, Color)
        /\ Declares(after, TextDecoration)
        /\ ~Declares(AnchorStyle, Color) => DeclaredValue(after, Color) = <<"#", "0", "0", "0", "0", "0", "0">>
        /\ ~Declares(AnchorStyle, TextDecoration) => DeclaredValue(after, TextDecoration) = <<"u", "n", "d", "e", "r", "l", "i", "n", "e">>

(***************************************************************************)
(* C11 as stated: an anchor with an href whose content is plain text or a  *)
(* formatting span without colour leaves _apply_link_fixes with a color    *)
(* and a text-decoration declaration in its style (#000000 and underline   *)
(* when it had none) and with its content wrapped in a span declaring      *)
(* font-size, color and text-decoration; a second run changes nothing; an  *)
(* anchor without href is never changed.                                   *)
(***************************************************************************)
LinkFixComplete ==
    pc = "refixed" =>
        /\ (el.href /\ FormattingContent) => (AnchorStyled /\ Wrapped)
        /\ locals.again = result
        /\ ~el.href => result = html

(***************************************************************************)
(* What the guards do ensure (not a claim of its own): C11 holds for every *)
(* anchor whose style declares no property whose name merely ends in       *)
(* "color", and the second run changes nothing for any anchor.             *)
(***************************************************************************)
LinkFixCompleteWithoutOtherColors ==
    pc = "refixed" =>
        /\ (el.href /\ FormattingContent /\ ~Declares(AnchorStyle, <<"b", "a", "c", "k", "g", "r", "o", "u", "n", "d", "-", "c", "o", "l", "o", "r">>))
              => (AnchorStyled /\ Wrapped)
        /\ locals.again = result
        /\ ~el.href => result = html

\* the font size the wrapper span of the anchor declares
WrapperFontSize == DeclaredValue(GetAttr(WrapperAfter, "style"), FontSize)

\* the elements before the anchor that declare a font size (of any form / in whole pixels)
PrecedingSizes == {j \in DOMAIN el.pre : Declares(GetAttr(el.pre[j], "style"), FontSize)}

IsWholePixels(v) == DigitsEnd(v, 0) > 0 /\ LowerAll(Slice(v, DigitsEnd(v, 0), Len(v))) = <<"p", "x">>

PrecedingPixelSizes ==
    {j \in PrecedingSizes : IsWholePixels(DeclaredValue(GetAttr(el.pre[j], "style"), FontSize))}

NearestSize(among) ==
    IF among = {} THEN <<"1", "6", "p", "x">>
    ELSE DeclaredValue(GetAttr(el.pre[MaxOf(among)], "style"), FontSize)

GetsWrapper == el.href /\ FormattingContent

NoNode == 0

Absent == "(absent)"

Tag(id, depth, name, cls, style) ==
    [id |-> id, depth |-> depth, name |-> name, cls |-> cls, style |-> style,
     text |-> "", href |-> Absent, src |-> Absent, alt |-> Absent]

Str(id, depth, text) ==
    [id |-> id, depth |-> depth, name |-> "#text", cls |-> {}, style |-> Absent,
     text |-> text, href |-> Absent, src |-> Absent, alt |-> Absent]

Link(id, depth, href, style) == [Tag(id, depth, "a", {}, style) EXCEPT !.href = href]

Img(id, depth, cls, alt) == [Tag(id, depth, "img", cls, Absent) EXCEPT !.alt = alt, !.src = "template.png"]

\* the index of the node with this id (NoNode when it is not in the tree)
IndexOf(t, id) ==
    IF \E k \in DOMAIN t : t[k].id = id THEN CHOOSE k \in DOMAIN t : t[k].id = id ELSE NoNode

DepthOf(t, k) == IF k = NoNode THEN -1 ELSE t[k].depth

\* the last node of the subtree of node k (of the whole tree for the soup itself)
SubtreeEnd(t, k) ==
    LET below == {j \in (k + 1)..Len(t) : \A m \in (k + 1)..j : t[m].depth > DepthOf(t, k)}
    IN  IF below = {} THEN k ELSE MaxOf(below)

Descendants(t, k) == (k + 1)..SubtreeEnd(t, k)

Children(t, k) == {j \in Descendants(t, k) : t[j].depth = DepthOf(t, k) + 1}

Ancestors(t, k) == {j \in 1..(k - 1) : SubtreeEnd(t, j) >= k}

\* node.find_all(...): the matching descendants of k, in document order
FindAll(t, k, Match(_)) == {j \in Descendants(t, k) : t[j].name # "#text" /\ Match(t[j])}

\* node.find_all(..., recursive=False)
FindAllDirect(t, k, Match(_)) == {j \in Children(t, k) : t[j].name # "#text" /\ Match(t[j])}

LastOf(S) == IF S = {} THEN NoNode ELSE MaxOf(S)

\* the first of the matches in document order, or None
FirstOf(S) == IF S = {} THEN NoNode ELSE MinOf(S)

\* node.find(...): the first matching descendant of k, or None
FindFirst(t, k, Match(_)) == FirstOf(FindAll(t, k, Match))

\* node.find_parent(name): the nearest ancestor of k with this name, or None
FindParent(t, k, name) ==
    LET ups == {j \in Ancestors(t, k) : t[j].name = name}
    IN  IF ups = {} THEN NoNode ELSE MaxOf(ups)

\* the strings under node k (what get_text() joins)
Texts(t, k) == {t[j].text : j \in {m \in Descendants(t, k) : t[m].name = "#text"}}

\* 'phrase' in node.get_text()
TextHas(t, k, phrase) == phrase \in Texts(t, k)

Remove(t, a, b) == SubSeq(t, 1, a - 1) \o SubSeq(t, b + 1, Len(t))

\* node.clear()
Clear(t, k) == Remove(t, k + 1, SubtreeEnd(t, k))

\* node.decompose()
Decompose(t, k) == Remove(t, k, SubtreeEnd(t, k))

Shift(frag, by) == [j \in DOMAIN frag |-> [frag[j] EXCEPT !.depth = @ + by]]

InsertAt(t, at, frag) == SubSeq(t, 1, at) \o frag \o SubSeq(t, at + 1, Len(t))

\* node.append(fragment): the fragment becomes the last child of k
AppendChild(t, k, frag) == InsertAt(t, SubtreeEnd(t, k), Shift(frag, t[k].depth + 1))

\* node.insert_after(fragment): the fragment becomes the next sibling of k
InsertAfter(t, k, frag) == InsertAt(t, SubtreeEnd(t, k), Shift(frag, t[k].depth))

\* node.clear(); node.append(NavigableString(text))
SetText(t, k, id, text) == AppendChild(Clear(t, k), k, <<Str(id, 0, text)>>)

(***************************************************************************)
(* Locators shared by the injectors.                                       *)
(***************************************************************************)
IsNamed(n, name) == n.name = name

HasClass(n, name, c) == n.name = name /\ c \in n.cls

\* _outer_email_tr(element, soup): the row of the main table that holds element, or None
outer_email_tr(t, element) ==
    LET main_table == FindFirst(t, NoNode, LAMBDA n : HasClass(n, "table", "email-container"))
        main_tbody == FindFirst(t, main_table, LAMBDA n : IsNamed(n, "tbody"))
        rows == {tr \in FindAllDirect(t, main_tbody, LAMBDA n : IsNamed(n, "tr")) :
                    element \in Descendants(t, tr)}
    IN  IF main_table = NoNode THEN NoNode
        ELSE IF main_tbody = NoNode THEN NoNode
        ELSE IF rows = {} THEN NoNode
        ELSE MinOf(rows)

CreamStyle == "background-color: rgb(255, 252, 238);"

\* _find_marketing_author_td(soup)
find_marketing_author_td(t) ==
    FindFirst(t, NoNode, LAMBDA n : /\ HasClass(n, "td", "tablebox")
                                    /\ "table-box-mobile" \in n.cls
                                    /\ n.style = CreamStyle)

\* what an injector step hands on: the tree, and whether the step raised
Done(t) == [raised |-> FALSE, soup |-> t]

Raised(t) == [raised |-> TRUE, soup |-> t]

\* _update_title(soup, fields)
update_title(t) ==
    LET title == FindFirst(t, NoNode, LAMBDA n : IsNamed(n, "title"))
    IN  IF title # NoNode THEN Done(SetText(t, title, <<"new_title", 0>>, "fields.title - ParentData"))
        ELSE Done(t)

\* _update_copyright(soup)
update_copyright(t) ==
    LET ps == FindAll(t, NoNode, LAMBDA n : IsNamed(n, "p"))
        hits == {p \in ps : TextHas(t, p, "Copyright ParentData")}
    IN  IF hits = {} THEN Done(t)
        ELSE Done(SetText(t, MinOf(hits), <<"new_copyright", 0>>, "Copyright year ParentData"))

(***************************************************************************)
(* The marketing injector, _inject_marketing, one operator per function    *)
(* it calls.                                                               *)
(***************************************************************************)
\* _update_marketing_banner(soup, fields)
update_marketing_banner(t) ==
    LET p == FindFirst(t, NoNode, LAMBDA n : HasClass(n, "p", "welcome-message"))
    IN  IF p = NoNode THEN Done(t)
        ELSE Done(SetText(t, p, <<"new_banner", 0>>, "fields.banner_text"))

IntroParagraph1 ==
    << Tag(<<"new_intro", 1>>, 0, "p", {}, "_STYLE_P_MKT_INTRO"),
       Str(<<"new_intro", 2>>, 1, "para1") >>

IntroParagraph2 ==
    << Tag(<<"new_intro", 3>>, 0, "p", {}, "_STYLE_P_MKT_INTRO"),
       Link(<<"new_intro", 4>>, 1, "fields.discount_url", "color:#054f8b;text-decoration:underline;"),
       Str(<<"new_intro", 5>>, 2, "para2") >>

\* _update_marketing_intro(soup, fields)
update_marketing_intro(t, f) ==
    LET intro_td == FindFirst(t, NoNode, LAMBDA n : HasClass(n, "td", "tablebox"))
        cleared  == Clear(t, intro_td)
        with1    == AppendChild(cleared, intro_td, IntroParagraph1)
    IN  IF intro_td = NoNode THEN Done(t)
        ELSE IF f.has_para2 THEN Done(AppendChild(with1, intro_td, IntroParagraph2))
        ELSE Done(with1)

\* soup.find('a', string=re.compile(r'UPGRADE\s+NOW', re.I))
FindUpgradeLink(t) ==
    LET hits == {j \in DOMAIN t : /\ t[j].name = "a"
                                  /\ Cardinality(Children(t, j)) = 1
                                  /\ Texts(t, j) = {"UPGRADE NOW"}}
    IN  IF hits = {} THEN NoNode ELSE MinOf(hits)

\* the price paragraph of one pricing cell
UpdatePrice(t, cls, id, price) ==
    LET td == FindFirst(t, NoNode, LAMBDA n : HasClass(n, "td", cls))
        p  == FindFirst(t, td, LAMBDA n : IsNamed(n, "p"))
    IN  IF td # NoNode /\ p # NoNode THEN SetText(t, p, id, price) ELSE t

\* _update_marketing_pricing(soup, fields)
update_marketing_pricing(t) ==
    LET priced == UpdatePrice(UpdatePrice(t, "pricing-old", <<"new_price", 1>>, "fields.old_price"),
                              "pricing-new", <<"new_price", 2>>, "fields.discount_price")
        upgrade_link == FindUpgradeLink(priced)
    IN  IF upgrade_link # NoNode
        THEN Done([priced EXCEPT ![upgrade_link].href = "fields.discount_url"])
        ELSE Done(priced)

\* the tree without the subtrees of the nodes in drop
RECURSIVE DecomposeAll(_, _)
DecomposeAll(t, ids) ==
    IF ids = {} THEN t
    ELSE LET id == CHOOSE x \in ids : TRUE
         IN  DecomposeAll(IF IndexOf(t, id) = NoNode THEN t ELSE Decompose(t, IndexOf(t, id)),
                          ids \ {id})

\* the wrapper every inserted row shares: tr > td > table > tbody > tr > td
RowShell(id, outer_style, cell_cls, cell_style) ==
    << Tag(<<id, 1>>, 0, "tr", {}, Absent),
       Tag(<<id, 2>>, 1, "td", {"table-box-mobile", "no-top-pad"}, outer_style),
       Tag(<<id, 3>>, 2, "table", {}, Absent),
       Tag(<<id, 4>>, 3, "tbody", {}, Absent),
       Tag(<<id, 5>>, 4, "tr", {}, Absent),
       Tag(<<id, 6>>, 5, "td", cell_cls, cell_style) >>

\* _body_row(content_html)
body_row(id, content_html) ==
    RowShell(id, "background-color:#fff;padding:0 48px;", {"tablebox"}, "padding-bottom:0;")
        \o <<Str(<<id, 7>>, 6, content_html)>>

featured_image_row ==
    RowShell("new_image_row", "background-color:#fff;padding:0 48px;", {}, "text-align:center;")
        \o << [Img(<<"new_image_row", 7>>, 6, {"fluid"}, "fields.featured_image_alt")
                 EXCEPT !.src = "fields.featured_image_url", !.style = "display:block;..."] >>

leave_comment_row ==
    RowShell("new_comment_row", "background-color:#fff;padding:0 48px 40px;", {}, "padding:0;")
        \o << Tag(<<"new_comment_row", 7>>, 6, "div", {}, "display:inline-block;..."),
              Link(<<"new_comment_row", 8>>, 7, "fields.article_url", "display:block;..."),
              Str(<<"new_comment_row", 9>>, 8, "LEAVE A COMMENT") >>

\* a variant that inserts the new rows and leaves the old ones where they are
replace_marketing_body_keeping_rows(t, f) ==
    LET upgrade_row  == outer_email_tr(t, FindUpgradeLink(t))
        author_td    == find_marketing_author_td(t)
        author_row   == IF author_td # NoNode THEN outer_email_tr(t, author_td) ELSE NoNode
        inserted     == (IF f.has_intro THEN body_row("new_intro_row", "intro_html") ELSE <<>>)
                        \o featured_image_row
                        \o body_row("new_main_row", "main_html")
                        \o leave_comment_row
    IN  IF upgrade_row = NoNode \/ author_row = NoNode THEN Done(t)
        ELSE Done(InsertAfter(t, upgrade_row, inserted))

\* _replace_marketing_body(soup, fields)
replace_marketing_body(t, f) ==
    LET upgrade_link == FindUpgradeLink(t)
        upgrade_row  == outer_email_tr(t, upgrade_link)
        author_td    == find_marketing_author_td(t)
        author_row   == IF author_td # NoNode THEN outer_email_tr(t, author_td) ELSE NoNode
        main_table   == FindFirst(t, NoNode, LAMBDA n : HasClass(n, "table", "email-container"))
        main_tbody   == FindFirst(t, main_table, LAMBDA n : IsNamed(n, "tbody"))
        rows         == FindAllDirect(t, main_tbody, LAMBDA n : IsNamed(n, "tr"))
        between      == {r \in rows : r > upgrade_row /\ r < author_row}
        pruned       == DecomposeAll(t, {t[r].id : r \in between})
        inserted     == (IF f.has_intro THEN body_row("new_intro_row", "intro_html") ELSE <<>>)
                        \o featured_image_row
                        \o body_row("new_main_row", "main_html")
                        \o leave_comment_row
    IN  IF upgrade_row = NoNode \/ author_row = NoNode THEN Done(t)
        ELSE IF main_table = NoNode \/ main_tbody = NoNode THEN Raised(t)
        ELSE IF upgrade_row \notin rows \/ author_row \notin rows THEN Raised(t)
        ELSE Done(InsertAfter(pruned, IndexOf(pruned, t[upgrade_row].id), inserted))

AuthorNameStyle == "font-family: 'Lora'; font-size: 22px;"

\* node.find_next_sibling(name)
FindNextSibling(t, k, name) ==
    LET parent == IF Ancestors(t, k) = {} THEN NoNode ELSE MaxOf(Ancestors(t, k))
        later  == {j \in Children(t, parent) : j > k /\ t[j].name = name}
    IN  IF later = {} THEN NoNode ELSE MinOf(later)

\* node.find_next(name): the first such tag after k anywhere in the document
FindNext(t, k, name) ==
    LET later == {j \in DOMAIN t : j > k /\ t[j].name = name}
    IN  IF later = {} THEN NoNode ELSE MinOf(later)

\* _update_marketing_author(soup, fields)
update_marketing_author(t) ==
    LET author_td == find_marketing_author_td(t)
        author_p  == FindFirst(t, author_td, LAMBDA n : n.name = "p" /\ n.style = AuthorNameStyle)
        named     == SetText(t, author_p, <<"new_author", 1>>, "fields.author_name")
        title_p   == FindNextSibling(named, author_p, "p")
        titled    == IF title_p # NoNode
                     THEN SetText(named, title_p, <<"new_author", 2>>, "fields.author_title")
                     ELSE named
        link      == FindNext(titled, author_p, "a")
        linked    == IF link # NoNode
                     THEN SetText([titled EXCEPT ![link].href = "fields.author_url"],
                                  link, <<"new_author", 3>>, "About first_name")
                     ELSE titled
    IN  IF author_td = NoNode THEN Done(t)
        ELSE IF author_p = NoNode THEN Done(t)
        ELSE Done(linked)

(***************************************************************************)
(* SpecMarketing: _inject_marketing on a marketing template, one step per  *)
(* function it calls.  The template is put together from its parts, any of *)
(* which may be missing: the title, the rows of the main table (banner,    *)
(* intro, pricing, upgrade button, old body, author block, footer) and the *)
(* main table itself.  The footer row and its unsubscribe link are always  *)
(* there; they are no slot.                                                *)
(***************************************************************************)
MarketingParts ==
    {"title", "banner", "intro", "pricing", "upgrade", "body",
     "author", "author_name", "author_link", "copyright"}

TitlePart == <<Tag(<<"title", 0>>, 0, "title", {}, Absent), Str(<<"title", 1>>, 1, "Template")>>

BannerRow ==
    << Tag(<<"banner", 1>>, 0, "tr", {}, Absent),
       Tag(<<"banner", 2>>, 1, "td", {}, Absent),
       Tag(<<"banner", 3>>, 2, "p", {"welcome-message"}, Absent),
       Str(<<"banner", 4>>, 3, "template banner") >>

IntroRow ==
    << Tag(<<"intro", 1>>, 0, "tr", {}, Absent),
       Tag(<<"intro", 2>>, 1, "td", {"tablebox"}, Absent),
       Tag(<<"intro", 3>>, 2, "p", {}, Absent),
       Str(<<"intro", 4>>, 3, "template intro") >>

PricingRow ==
    << Tag(<<"pricing", 1>>, 0, "tr", {}, Absent),
       Tag(<<"pricing", 2>>, 1, "td", {"pricing-old"}, Absent),
       Tag(<<"pricing", 3>>, 2, "p", {}, Absent),
       Str(<<"pricing", 4>>, 3, "$120"),
       Tag(<<"pricing", 5>>, 1, "td", {"pricing-new"}, Absent),
       Tag(<<"pricing", 6>>, 2, "p", {}, Absent),
       Str(<<"pricing", 7>>, 3, "$84/year") >>

UpgradeRow ==
    << Tag(<<"upgrade", 1>>, 0, "tr", {}, Absent),
       Tag(<<"upgrade", 2>>, 1, "td", {}, Absent),
       Link(<<"upgrade", 3>>, 2, "template.url", Absent),
       Str(<<"upgrade", 4>>, 3, "UPGRADE NOW") >>

OldBodyRow ==
    << Tag(<<"body", 1>>, 0, "tr", {}, Absent),
       Tag(<<"body", 2>>, 1, "td", {"tablebox", "table-box-mobile"}, Absent),
       Tag(<<"body", 3>>, 2, "p", {}, Absent),
       Str(<<"body", 4>>, 3, "template body") >>

AuthorRow(parts) ==
    << Tag(<<"author", 1>>, 0, "tr", {}, Absent),
       Tag(<<"author", 2>>, 1, "td", {"tablebox", "table-box-mobile"}, CreamStyle) >>
    \o (IF "author_name" \in parts
        THEN << Tag(<<"author", 3>>, 2, "p", {}, AuthorNameStyle),
                Str(<<"author", 4>>, 3, "template author") >>
        ELSE <<>>)
    \o << Tag(<<"author", 5>>, 2, "p", {}, Absent),
          Str(<<"author", 6>>, 3, "template author title") >>
    \o (IF "author_link" \in parts
        THEN << Tag(<<"author", 7>>, 2, "p", {}, Absent),
                Link(<<"author", 8>>, 3, "template.url", Absent),
                Str(<<"author", 9>>, 4, "About Author") >>
        ELSE <<>>)

FooterRow(parts) ==
    << Tag(<<"footer", 1>>, 0, "tr", {}, Absent),
       Tag(<<"footer", 2>>, 1, "td", {}, Absent) >>
    \o (IF "copyright" \in parts
        THEN << Tag(<<"footer", 3>>, 2, "p", {}, Absent),
                Str(<<"footer", 4>>, 3, "Copyright ParentData") >>
        ELSE <<>>)
    \o << Link(<<"footer", 5>>, 2, "unsubscribe.url", Absent),
          Str(<<"footer", 6>>, 3, "Unsubscribe") >>

Part(parts, name, frag) == IF name \in parts THEN frag ELSE <<>>

MainTable(rows) ==
    << Tag(<<"main", 1>>, 0, "table", {"email-container"}, Absent),
       Tag(<<"main", 2>>, 1, "tbody", {}, Absent) >> \o Shift(rows, 2)

MarketingTemplate(parts, container) ==
    LET rows == Part(parts, "banner", BannerRow) \o Part(parts, "intro", IntroRow)
                \o Part(parts, "pricing", PricingRow) \o Part(parts, "upgrade", UpgradeRow)
                \o Part(parts, "body", OldBodyRow) \o Part(parts, "author", AuthorRow(parts))
                \o FooterRow(parts)
    IN  Part(parts, "title", TitlePart) \o (IF container THEN MainTable(rows) ELSE rows)

InitMarketing ==
    /\ \E parts \in SUBSET MarketingParts, container \in BOOLEAN :
          /\ "author" \notin parts => parts \cap {"author_name", "author_link"} = {}
          /\ el = [parts |-> parts, container |-> container]
          /\ soup = MarketingTemplate(parts, container)
    /\ fields \in [has_para2 : BOOLEAN, has_intro : BOOLEAN]
    /\ template_type = "marketing"
    /\ pc = "_update_title"
    /\ html = <<>>
    /\ result = None
    /\ locals = None
    /\ inline_graphs = <<>>
    /\ MapperIdle

\* one function of the injector returns r; the next one to run is next
InjectorStep(r, next) ==
    /\ soup' = r.soup
    /\ pc' = IF r.raised THEN "raised" ELSE next
    /\ UNCHANGED <<html, result, el, locals, inline_graphs, fields, template_type, mapperVars>>

MarketingTitle ==
    /\ pc = "_update_title" /\ template_type = "marketing"
    /\ InjectorStep(update_title(soup), "_update_marketing_banner")

MarketingBanner ==
    /\ pc = "_update_marketing_banner"
    /\ InjectorStep(update_marketing_banner(soup), "_update_marketing_intro")

MarketingIntro ==
    /\ pc = "_update_marketing_intro"
    /\ InjectorStep(update_marketing_intro(soup, fields), "_update_marketing_pricing")

MarketingPricing ==
    /\ pc = "_update_marketing_pricing"
    /\ InjectorStep(update_marketing_pricing(soup), "_replace_marketing_body")

MarketingBody ==
    /\ pc = "_replace_marketing_body"
    /\ InjectorStep(replace_marketing_body(soup, fields), "_update_marketing_author")

MarketingAuthor ==
    /\ pc = "_update_marketing_author"
    /\ InjectorStep(update_marketing_author(soup), "_update_copyright")

MarketingCopyright ==
    /\ pc = "_update_copyright" /\ template_type = "marketing"
    /\ InjectorStep(update_copyright(soup), "injected")

NextMarketing ==
    \/ MarketingTitle \/ MarketingBanner \/ MarketingIntro \/ MarketingPricing
    \/ MarketingBody \/ MarketingAuthor \/ MarketingCopyright

SpecMarketing == InitMarketing /\ [][NextMarketing]_vars

(***************************************************************************)
(* What the marketing injector is to leave behind, slot by slot.           *)
(***************************************************************************)
InTree(id) == IndexOf(soup, id) # NoNode

\* the node with this id is in the tree and holds exactly this text
Holds(id, text) == InTree(id) /\ Texts(soup, IndexOf(soup, id)) = {text}

NodeOf(id) == soup[IndexOf(soup, id)]

\* the node with this id is a child of the node with that id
ChildOf(id, parent) ==
    InTree(id) /\ InTree(parent) /\ IndexOf(soup, id) \in Children(soup, IndexOf(soup, parent))

\* the inserted rows stand right behind the upgrade row, and the old body is gone
BodyInserted ==
    LET first == IF fields.has_intro THEN <<"new_intro_row", 1>> ELSE <<"new_image_row", 1>>
    IN  /\ InTree(first)
        /\ IndexOf(soup, first) = SubtreeEnd(soup, IndexOf(soup, <<"upgrade", 1>>)) + 1
        /\ InTree(<<"new_image_row", 1>>) /\ InTree(<<"new_main_row", 1>>)
        /\ InTree(<<"new_comment_row", 1>>)
        /\ ~InTree(<<"body", 1>>)

MarketingSlotPresent(slot) ==
    CASE slot = "body"   -> {"upgrade", "author"} \subseteq el.parts /\ el.container
      [] slot = "author" -> "author_name" \in el.parts
      [] OTHER           -> slot \in el.parts

MarketingSlotFilled(slot) ==
    CASE slot = "title"   -> Holds(<<"title", 0>>, "fields.title - ParentData")
      [] slot = "banner"  -> Holds(<<"banner", 3>>, "fields.banner_text")
      [] slot = "intro"   -> ChildOf(<<"new_intro", 1>>, <<"intro", 2>>)
      [] slot = "pricing" -> /\ Holds(<<"pricing", 3>>, "fields.old_price")
                             /\ Holds(<<"pricing", 6>>, "fields.discount_price")
      [] slot = "upgrade" -> InTree(<<"upgrade", 3>>) /\ NodeOf(<<"upgrade", 3>>).href = "fields.discount_url"
      [] slot = "body"    -> BodyInserted
      [] slot = "author"  -> /\ Holds(<<"author", 3>>, "fields.author_name")
                             /\ Holds(<<"author", 5>>, "fields.author_title")
                             /\ "author_link" \in el.parts =>
                                   /\ Holds(<<"author", 8>>, "About first_name")
                                   /\ NodeOf(<<"author", 8>>).href = "fields.author_url"
      [] slot = "copyright" -> Holds(<<"footer", 3>>, "Copyright year ParentData")

\* the content meant for the slot is nowhere in the tree
MarketingSlotSkipped(slot) ==
    CASE slot = "title"   -> ~InTree(<<"new_title", 0>>)
      [] slot = "banner"  -> ~InTree(<<"new_banner", 0>>)
      [] slot = "intro"   -> ~InTree(<<"new_intro", 1>>)
      [] slot = "pricing" -> ~InTree(<<"new_price", 1>>) /\ ~InTree(<<"new_price", 2>>)
      [] slot = "upgrade" -> \A k \in DOMAIN soup : soup[k].href # "fields.discount_url" \/ soup[k].id = <<"new_intro", 4>>
      [] slot = "body"    -> ~InTree(<<"new_image_row", 1>>) /\ ~InTree(<<"new_main_row", 1>>)
      [] slot = "author"  -> ~InTree(<<"new_author", 1>>)
      [] slot = "copyright" -> ~InTree(<<"new_copyright", 0>>)

MarketingSlots == {"title", "banner", "intro", "pricing", "upgrade", "body", "author", "copyright"}

(***************************************************************************)
(* C12 as stated, for the marketing variant: whichever slots the template  *)
(* lacks, the injector completes without raising, skips exactly the absent *)
(* slots, and fills every slot that is present.                            *)
(***************************************************************************)
MarketingInjectorDefensive ==
    /\ pc # "raised"
    /\ pc = "injected" =>
          \A slot \in MarketingSlots :
              IF MarketingSlotPresent(slot) THEN MarketingSlotFilled(slot)
              ELSE MarketingSlotSkipped(slot)

(***************************************************************************)
(* What does hold (not a claim of its own): the injector never raises; and *)
(* when the intro cell is present and the author block has its link, every *)
(* present slot is filled and every absent one skipped.                    *)
(***************************************************************************)
MarketingInjectorNeverRaises == pc # "raised"

MarketingInjectorDefensiveWithIntroAndLink ==
    (pc = "injected" /\ "intro" \in el.parts
                     /\ ("author_name" \in el.parts => "author_link" \in el.parts)) =>
        \A slot \in MarketingSlots :
            IF MarketingSlotPresent(slot) THEN MarketingSlotFilled(slot)
            ELSE MarketingSlotSkipped(slot)

(***************************************************************************)
(* generate and build_email_html: the registry of templates, the dispatch  *)
(* on the variant and the order of the stages.                             *)
(***************************************************************************)
Variants ==
    {"standard", "fertility", "qa", "marketing", "fertility_digest", "paid_digest", "latest_teaser"}

\* TEMPLATES of staging.py: the variant and the 'file' registered for it
TEMPLATES ==
    ("standard" :> "email_templates/latest_template.html") @@
    ("fertility" :> "email_templates/template_fertilityarticle.html") @@
    ("qa" :> "email_templates/template_fertilityqa.html") @@
    ("marketing" :> "email_templates/template_marketing.html") @@
    ("fertility_digest" :> "email_templates/template_fertilitydigest.html")

\* template_type = data.get('template_type', 'standard');
\* if template_type not in TEMPLATES: template_type = 'standard'
registered_type(requested) ==
    LET got == IF requested = Absent THEN "standard" ELSE requested
    IN  IF got \in DOMAIN TEMPLATES THEN got ELSE "standard"

StandardSteps == "_update_title .. _update_copyright"

DispatchKnownOnly(type) ==
    IF type = "qa" THEN "_inject_qa"
    ELSE IF type = "fertility" THEN "_inject_fertility"
    ELSE IF type = "marketing" THEN "_inject_marketing"
    ELSE IF type = "fertility_digest" THEN "_inject_fertility_digest"
    ELSE IF type = "paid_digest" THEN "_inject_paid_digest"
    ELSE IF type = "latest_teaser" THEN "_inject_latest_teaser"
    ELSE IF type = "standard" THEN StandardSteps
    ELSE "ValueError"

\* the if / elif chain of build_email_html: the strategy run for a template_type
Dispatch(type) ==
    IF type = "qa" THEN "_inject_qa"
    ELSE IF type = "fertility" THEN "_inject_fertility"
    ELSE IF type = "marketing" THEN "_inject_marketing"
    ELSE IF type = "fertility_digest" THEN "_inject_fertility_digest"
    ELSE IF type = "paid_digest" THEN "_inject_paid_digest"
    ELSE IF type = "latest_teaser" THEN "_inject_latest_teaser"
    ELSE StandardSteps

StageAfterHeightFirst(stage) ==
    CASE stage = "generate" -> "inject"
      [] stage = "inject" -> "serialise"
      [] stage = "serialise" -> "graphs"
      [] stage = "graphs" -> "tree_passes"
      [] stage = "tree_passes" -> "height_fix"
      [] stage = "height_fix" -> "link_fix"
      [] stage = "link_fix" -> "gmail_css"
      [] stage = "gmail_css" -> "returned"

\* the statement that follows a stage in generate, build_email_html and apply_email_fixes
StageAfter(stage) ==
    CASE stage = "generate" -> "inject"
      [] stage = "inject" -> "serialise"
      [] stage = "serialise" -> "graphs"
      [] stage = "graphs" -> "tree_passes"
      [] stage = "tree_passes" -> "link_fix"
      [] stage = "link_fix" -> "gmail_css"
      [] stage = "gmail_css" -> "height_fix"
      [] stage = "height_fix" -> "returned"

\* _replace_graph_placeholders on a serialised document whose placeholders stand in text
RECURSIVE resolve_graphs(_, _)
resolve_graphs(doc, graphs) ==
    IF doc = <<>> THEN [raised |-> FALSE, doc |-> <<>>]
    ELSE LET r == IF doc[1].kind = "text"
                  THEN replace_graph_placeholders(doc[1].text, graphs)
                  ELSE [raised |-> FALSE, text |-> <<>>]
             rest == IF r.raised THEN [raised |-> TRUE, doc |-> <<>>]
                     ELSE resolve_graphs(Tail(doc), graphs)
             tok  == IF doc[1].kind = "text" THEN Text(r.text) ELSE doc[1]
         IN  [raised |-> rest.raised, doc |-> IF rest.raised THEN <<>> ELSE <<tok>> \o rest.doc]

(***************************************************************************)
(* SpecBuild: one POST /generate per behaviour.  The request names a       *)
(* variant, an unknown type or none; el is the document that the injected  *)
(* template serialises to.                                                 *)
(***************************************************************************)
RequestedTypes == Variants \cup {"newsletter", Absent}

BuildElements ==
    { <<Text(GraphToken(<<"1">>))>>,
      <<Text(GraphToken(<<"0">>))>>,
      <<Open("script", <<>>), X, Close("script")>>,
      <<Open("td", <<Attr("class", TableBoxMobile), Attr("style", <<"p", "a", "d", "d", "i", "n", "g", "-", "t", "o", "p", ":", "0", ";", "h", "e", "i", "g", "h", "t", ":", "3", "0", "0", "p", "x">>)>>), X, Close("td")>>,
      <<Open("a", <<Href>>), X, Close("a")>>,
      <<Open("a", <<Href, Attr("style", <<"h", "e", "i", "g", "h", "t", ":", "3", "0", "0", "p", "x">>)>>), Open("i", <<>>), X, Close("i"), Close("a")>> }

BuildGraphs == {<<>>, <<[has_url |-> TRUE, url |-> <<"u">>, has_alt |-> FALSE, alt |-> <<>>]>>}

InitBuild ==
    /\ template_type \in RequestedTypes
    /\ \E elems \in StrSet(BuildElements, MaxElements) :
          el = Serialise(Document(<<>>, <<Open("body", <<>>)>>, elems))
    /\ inline_graphs \in BuildGraphs
    /\ pc = "generate"
    /\ locals = [requested |-> template_type, template_path |-> "None", injector |-> "None", trace |-> <<>>]
    /\ html = None
    /\ result = None
    /\ soup = <<>>
    /\ fields = None
    /\ MapperIdle

Ran(stage) == [locals EXCEPT !.trace = Append(@, stage)]

\* generate up to the call of build_email_html
Generate ==
    /\ pc = "generate"
    /\ template_type' = registered_type(template_type)
    /\ locals' = [locals EXCEPT !.template_path = TEMPLATES[registered_type(template_type)]]
    /\ pc' = StageAfter("generate")
    /\ UNCHANGED <<html, result, el, inline_graphs, soup, fields, mapperVars>>

\* the template is parsed and the strategy of the template_type runs
Inject ==
    /\ pc = "inject"
    /\ locals' = [Ran("inject") EXCEPT !.injector = Dispatch(template_type)]
    /\ pc' = StageAfter("inject")
    /\ UNCHANGED <<html, result, el, inline_graphs, treeVars, mapperVars>>

\* html = str(soup)
SerialiseTree ==
    /\ pc = "serialise"
    /\ html' = el
    /\ locals' = Ran("serialise")
    /\ pc' = StageAfter("serialise")
    /\ UNCHANGED <<result, el, inline_graphs, treeVars, mapperVars>>

\* html = _replace_graph_placeholders(html, fields.get('inline_graphs', []))
ResolveGraphs ==
    /\ pc = "graphs"
    /\ LET r == resolve_graphs(html, inline_graphs)
       IN  /\ ~r.raised
           /\ html' = r.doc
    /\ locals' = Ran("graphs")
    /\ pc' = StageAfter("graphs")
    /\ UNCHANGED <<result, el, inline_graphs, treeVars, mapperVars>>

\* the IndexError of the callback leaves build_email_html; generate answers 500
ResolveGraphsIndexError ==
    /\ pc = "graphs"
    /\ resolve_graphs(html, inline_graphs).raised
    /\ locals' = Ran("graphs")
    /\ pc' = "raised"
    /\ UNCHANGED <<html, result, el, inline_graphs, treeVars, mapperVars>>

\* apply_email_fixes, passes 1-6 and 9 on the parsed tree, then html = str(soup)
TreePasses ==
    /\ pc = "tree_passes"
    /\ html' = tree_passes(html)
    /\ locals' = Ran("tree_passes")
    /\ pc' = StageAfter("tree_passes")
    /\ UNCHANGED <<result, el, inline_graphs, treeVars, mapperVars>>

\* html = _apply_link_fixes(html)
LinkFix ==
    /\ pc = "link_fix"
    /\ html' = apply_link_fixes(html)
    /\ locals' = Ran("link_fix")
    /\ pc' = StageAfter("link_fix")
    /\ UNCHANGED <<result, el, inline_graphs, treeVars, mapperVars>>

\* html = _inject_gmail_ios_css(html)
GmailCssInjection ==
    /\ pc = "gmail_css"
    /\ html' = inject_gmail_ios_css(html)
    /\ locals' = Ran("gmail_css")
    /\ pc' = StageAfter("gmail_css")
    /\ UNCHANGED <<result, el, inline_graphs, treeVars, mapperVars>>

\* html = _fix_iterable_heights(html)
HeightFix ==
    /\ pc = "height_fix"
    /\ html' = fix_iterable_heights(html)
    /\ locals' = Ran("height_fix")
    /\ pc' = StageAfter("height_fix")
    /\ UNCHANGED <<result, el, inline_graphs, treeVars, mapperVars>>

\* return html
Return ==
    /\ pc = "returned"
    /\ result = None
    /\ result' = html
    /\ UNCHANGED <<html, pc, el, locals, inline_graphs, treeVars, mapperVars>>

NextBuild ==
    \/ Generate
    \/ Inject
    \/ SerialiseTree
    \/ ResolveGraphs
    \/ ResolveGraphsIndexError
    \/ TreePasses
    \/ LinkFix
    \/ GmailCssInjection
    \/ HeightFix
    \/ Return

SpecBuild == InitBuild /\ [][NextBuild]_vars

(***************************************************************************)
(* The order of the stages, stated on the record of the stages run and on  *)
(* the document returned.                                                  *)
(***************************************************************************)
ClaimedStages ==
    <<"inject", "serialise", "graphs", "tree_passes", "link_fix", "gmail_css", "height_fix">>

IsPrefix(s, t) == Len(s) <= Len(t) /\ s = SubSeq(t, 1, Len(s))

BuildReturned == pc = "returned" /\ result # None

\* C13: in every build_email_html call the stages run once each and in the order
\* injection, serialisation, graph-placeholder resolution, apply_email_fixes, and
\* inside apply_email_fixes the tree passes come before the string passes link fix,
\* Gmail CSS injection and height fix, in this order: the stages run so far are
\* always the first stages of that list, and the document returned is the one these
\* stages give when applied in that order.
StagesOnceInOrder ==
    /\ IsPrefix(locals.trace, ClaimedStages)
    /\ pc = "returned" => locals.trace = ClaimedStages
    /\ BuildReturned =>
          result = fix_iterable_heights(inject_gmail_ios_css(apply_link_fixes(
                       tree_passes(resolve_graphs(el, inline_graphs).doc))))

\* a build that resolved a placeholder, fixed a link, and returned
StagesWitness ==
    /\ BuildReturned
    /\ inline_graphs # <<>>
    /\ html # el
    /\ \E j \in DOMAIN el : el[j].kind = "text" /\ el[j].text = GraphToken(<<"1">>)
    /\ \E j \in DOMAIN el : el[j].kind = "open" /\ el[j].name = "a"

(***************************************************************************)
(* The variants, their templates and their strategies.                     *)
(***************************************************************************)
\* C14: each of the seven variants has exactly one template registered for it and is
\* dispatched to a strategy of its own: no two variants share a strategy, and a
\* request for a variant is built from the template registered for that variant
\* with the strategy of that variant.
VariantOwnsTemplateAndStrategy ==
    /\ \A v, w \in Variants : v # w => Dispatch(v) # Dispatch(w)
    /\ (locals.requested \in Variants /\ locals.injector # "None") =>
          /\ locals.requested \in DOMAIN TEMPLATES
          /\ locals.template_path = TEMPLATES[locals.requested]
          /\ locals.injector = Dispatch(locals.requested)

\* the strategies of build_email_html are one per variant
VariantsDispatchedApart ==
    \A v, w \in Variants : v # w => Dispatch(v) # Dispatch(w)

\* a request for one of the five registered variants is built from its own template
\* with its own strategy, and the registered files differ
RegisteredVariantOwnsTemplateAndStrategy ==
    /\ \A v, w \in DOMAIN TEMPLATES : v # w => TEMPLATES[v] # TEMPLATES[w]
    /\ (locals.requested \in DOMAIN TEMPLATES /\ locals.injector # "None") =>
          /\ locals.template_path = TEMPLATES[locals.requested]
          /\ locals.injector = Dispatch(locals.requested)

\* every other request is built as the standard variant
UnregisteredBuiltAsStandard ==
    (locals.requested \notin DOMAIN TEMPLATES /\ locals.injector # "None") =>
          /\ locals.template_path = TEMPLATES["standard"]
          /\ locals.injector = StandardSteps

(***************************************************************************)
(* _update_related_articles and _rebuild_article_card.                     *)
(***************************************************************************)
MaxRows == 3

MaxArticles == 3

MoreFromParentData == "More from ParentData"

PaddingBottom32 == "padding-bottom: 32px;"

\* the ids of a set of nodes, in document order
RECURSIVE IdsInOrder(_, _)
IdsInOrder(t, S) ==
    IF S = {} THEN <<>> ELSE <<t[MinOf(S)].id>> \o IdsInOrder(t, S \ {MinOf(S)})

\* BeautifulSoup(card_html, 'html.parser') for the i-th article: the card's table with
\* the link to the article around its title
CardTable(n, article) ==
    << Tag(<<"new_card", n>>, 0, "table", {}, Absent),
       Link(<<"new_card_link", n>>, 1, article, "color: #000000; text-decoration: none;"),
       Str(<<"new_card_title", n>>, 2, article) >>

\* _rebuild_article_card(card_tr, article, is_last)
rebuild_article_card(t, card_tr, n, article, is_last) ==
    LET tr == IndexOf(t, card_tr)
        td == FindFirst(t, tr, LAMBDA x : IsNamed(x, "td"))
        styled == [t EXCEPT ![td].style = IF is_last THEN "" ELSE PaddingBottom32]
    IN  IF td = NoNode THEN t
        ELSE AppendChild(Clear(styled, td), td, CardTable(n, article))

\* for i, (card_tr, article) in enumerate(zip(card_rows, articles)), from the n-th pair on
RECURSIVE RebuildFrom(_, _, _, _)
RebuildFrom(t, rows, articles, n) ==
    IF n > Len(rows) \/ n > Len(articles) THEN t
    ELSE RebuildFrom(rebuild_article_card(t, rows[n], n, articles[n], n = Len(articles)),
                     rows, articles, n + 1)

\* more_h2: the first h2 whose text holds 'More from ParentData'
more_h2(t) == FindFirst(t, NoNode, LAMBDA n : IsNamed(n, "h2") /\ MoreFromParentData \in Texts(t, IndexOf(t, n.id)))

\* card_rows: the direct rows of section_tbody behind the first row that holds an h2
\* and the heading's text
card_rows(t, section_tbody) ==
    LET rows == FindAllDirect(t, section_tbody, LAMBDA n : IsNamed(n, "tr"))
        heading_rows == {tr \in rows : /\ FindFirst(t, tr, LAMBDA n : IsNamed(n, "h2")) # NoNode
                                       /\ TextHas(t, tr, MoreFromParentData)}
    IN  IF heading_rows = {} THEN {} ELSE {tr \in rows : tr > MinOf(heading_rows)}

\* _update_related_articles(soup, articles)
update_related_articles(t, articles) ==
    LET section_tbody == FindParent(t, more_h2(t), "tbody")
    IN  IF articles = <<>> THEN t
        ELSE IF more_h2(t) = NoNode THEN t
        ELSE IF section_tbody = NoNode THEN t
        ELSE RebuildFrom(t, IdsInOrder(t, card_rows(t, section_tbody)), articles, 1)

(***************************************************************************)
(* SpecRelated: one _update_related_articles call per behaviour, on a      *)
(* template whose section has a heading row and some card rows, a heading  *)
(* outside any table body, or no heading.                                  *)
(***************************************************************************)
Articles == {"article_a", "article_b"}

HeadingRow ==
    << Tag(<<"heading_row", 1>>, 2, "tr", {}, Absent),
       Tag(<<"heading_td", 1>>, 3, "td", {}, Absent),
       Tag(<<"more_h2", 1>>, 4, "h2", {}, Absent),
       Str(<<"more_text", 1>>, 5, MoreFromParentData) >>

OtherRow ==
    << Tag(<<"other_row", 1>>, 2, "tr", {}, Absent),
       Tag(<<"other_td", 1>>, 3, "td", {}, PaddingBottom32),
       Str(<<"other_text", 1>>, 4, "Article footer") >>

\* the j-th of rows card rows of the template; the last one has no bottom padding
TemplateCardRow(j, rows) ==
    << Tag(<<"card_row", j>>, 2, "tr", {}, Absent),
       Tag(<<"card_td", j>>, 3, "td", {}, IF j = rows THEN "" ELSE PaddingBottom32),
       Tag(<<"old_card", j>>, 4, "table", {}, Absent),
       Link(<<"old_card_link", j>>, 5, "template_article", "color: #000000; text-decoration: none;"),
       Str(<<"old_card_title", j>>, 6, "template_article") >>

RelatedTemplate(heading, before, rows) ==
    (IF heading = "bare"
     THEN <<Tag(<<"more_h2", 1>>, 0, "h2", {}, Absent), Str(<<"more_text", 1>>, 1, MoreFromParentData)>>
     ELSE <<>>)
    \o <<Tag(<<"section_table", 1>>, 0, "table", {}, Absent), Tag(<<"section_tbody", 1>>, 1, "tbody", {}, Absent)>>
    \o (IF before THEN OtherRow ELSE <<>>)
    \o (IF heading = "row" THEN HeadingRow ELSE <<>>)
    \o Concat([j \in 1..rows |-> TemplateCardRow(j, rows)])

InitRelated ==
    /\ \E heading \in {"row", "bare", "none"}, before \in BOOLEAN, rows \in 0..MaxRows :
          /\ el = [heading |-> heading, before |-> before, rows |-> rows]
          /\ soup = RelatedTemplate(heading, before, rows)
    /\ fields \in {[related_articles |-> a] : a \in StrSet(Articles, MaxArticles)}
    /\ template_type = "standard"
    /\ pc = "_update_related_articles"
    /\ html = <<>>
    /\ result = None
    /\ locals = None
    /\ inline_graphs = <<>>
    /\ MapperIdle

RelatedStep ==
    /\ soup' = update_related_articles(soup, fields.related_articles)
    /\ pc' = "updated"
    /\ UNCHANGED <<html, result, el, locals, inline_graphs, fields, template_type, mapperVars>>

\* if not articles: return
RelatedNoArticles ==
    /\ pc = "_update_related_articles"
    /\ fields.related_articles = <<>>
    /\ RelatedStep

\* if not more_h2: return;  if not section_tbody: return
RelatedNoSection ==
    /\ pc = "_update_related_articles"
    /\ fields.related_articles # <<>>
    /\ FindParent(soup, more_h2(soup), "tbody") = NoNode
    /\ RelatedStep

RelatedRebuild ==
    /\ pc = "_update_related_articles"
    /\ fields.related_articles # <<>>
    /\ FindParent(soup, more_h2(soup), "tbody") # NoNode
    /\ RelatedStep

NextRelated == RelatedNoArticles \/ RelatedNoSection \/ RelatedRebuild

SpecRelated == InitRelated /\ [][NextRelated]_vars

(***************************************************************************)
(* The section read off the tree: its cards are the rows behind the        *)
(* heading row, each with the article its link points to.                  *)
(***************************************************************************)
SectionCards ==
    LET tbody == IndexOf(soup, <<"section_tbody", 1>>)
        heading == IndexOf(soup, <<"heading_row", 1>>)
    IN  IdsInOrder(soup, {j \in Children(soup, tbody) : j > heading})

\* the article a card links to
CardArticle(row) ==
    LET links == {j \in Descendants(soup, IndexOf(soup, row)) : soup[j].name = "a"}
    IN  IF links = {} THEN Absent ELSE soup[MinOf(links)].href

\* the style of the cell of a card
CardPadding(row) ==
    LET cells == {j \in Children(soup, IndexOf(soup, row)) : soup[j].name = "td"}
    IN  IF cells = {} THEN Absent ELSE soup[MinOf(cells)].style

RelatedUpdated == pc = "updated" /\ el.heading = "row"

CardsFollow(articles) ==
    /\ Len(SectionCards) = Len(articles)
    /\ \A j \in 1..Len(articles) :
          j <= Len(SectionCards) =>
             /\ CardArticle(SectionCards[j]) = articles[j]
             /\ CardPadding(SectionCards[j]) = IF j = Len(articles) THEN "" ELSE PaddingBottom32

\* C15: for a list of k related articles (k = 0, 1 or more) and a template with any
\* number of card rows behind the 'More from ParentData' heading, the section is left
\* with exactly k cards, one per item in list order; the card of the last item has
\* no bottom padding and every earlier card has padding-bottom: 32px.
RelatedCardsOnePerItem == RelatedUpdated => CardsFollow(fields.related_articles)

\* with as many card rows in the template as there are items (at least one), the
\* section holds one card per item in order, the last without bottom padding
RelatedCardsWhenRowsMatch ==
    (RelatedUpdated /\ el.rows = Len(fields.related_articles) /\ el.rows > 0)
        => CardsFollow(fields.related_articles)

\* the number of rows of the section never changes: rows are rebuilt in place, the
\* rows beyond the list keep the template's card, an empty list changes nothing
RelatedRowsRebuiltInPlace ==
    RelatedUpdated =>
        /\ Len(SectionCards) = el.rows
        /\ \A j \in 1..el.rows :
              CardArticle(SectionCards[j]) =
                  IF j <= Len(fields.related_articles) THEN fields.related_articles[j]
                  ELSE "template_article"
        /\ fields.related_articles = <<>> => soup = RelatedTemplate(el.heading, el.before, el.rows)

(***************************************************************************)
(* SpecTags: one apply_email_fixes call per behaviour, on a document with  *)
(* one marked element (id="e"): a bold, italic or underline element, a     *)
(* script, an iframe, an image or a paragraph, with or without a style,    *)
(* alone, inside a link or inside a table cell.                            *)
(***************************************************************************)
Marked == Attr("id", <<"e">>)

TagNames == {"strong", "b", "em", "i", "u", "script", "iframe", "img", "p"}

TagStyles ==
    { <<>>,
      <<Attr("style", <<>>)>>,
      <<Attr("style", <<"d", "i", "s", "p", "l", "a", "y", ":", "i", "n", "l", "i", "n", "e">>)>>,
      <<Attr("style", <<"D", "I", "S", "P", "L", "A", "Y", ":", " ", "n", "o", "n", "e", ";", "w", "i", "d", "t", "h", ":", "9", "p", "x">>)>>,
      <<Attr("style", <<"w", "i", "d", "t", "h", ":", "9", "p", "x">>)>>,
      <<Attr("style", <<"f", "o", "n", "t", "-", "f", "a", "m", "i", "l", "y", ":", "P", "l", "a", "y", "f", "a", "i", "r", " ", "D", "i", "s", "p", "l", "a", "y">>)>> }

TagAlts == {<<>>, <<Attr("alt", <<"x">>)>>, <<Attr("alt", <<>>)>>}

MarkedElement(name, style, alt) ==
    IF name = "img" THEN <<Void("img", <<Marked>> \o alt \o style)>>
    ELSE <<Open(name, <<Marked>> \o style), X, Close(name)>>

Around(wrap, elem) ==
    IF wrap = "a" THEN <<Open("a", <<Href>>)>> \o elem \o <<Close("a")>>
    ELSE IF wrap = "td" THEN <<Open("td", <<Attr("style", <<"h", "e", "i", "g", "h", "t", ":", "3", "0", "0", "p", "x">>)>>)>> \o elem \o <<Close("td")>>
    ELSE elem

InitTags ==
    /\ \E name \in TagNames, style \in TagStyles, alt \in TagAlts, wrap \in {"none", "a", "td"}, head \in Heads :
          /\ name # "img" => alt = <<>>
          /\ el = [name |-> name, style |-> style, alt |-> alt, wrap |-> wrap]
          /\ html = Serialise(Document(head, <<Open("body", <<>>)>>, <<Around(wrap, MarkedElement(name, style, alt))>>))
    /\ pc = "start"
    /\ result = None
    /\ locals = None
    /\ inline_graphs = <<>>
    /\ MapperIdle
    /\ TreeIdle

\* fixed = apply_email_fixes(html)
FixTags ==
    /\ pc = "start"
    /\ el.name \in TagNames
    /\ result' = apply_email_fixes(html)
    /\ pc' = "fixed"
    /\ UNCHANGED <<html, locals, el, inline_graphs, treeVars, mapperVars>>

NextTags == FixTags

SpecTags == InitTags /\ [][NextTags]_vars

(***************************************************************************)
(* The marked element before and after the fixes.                          *)
(***************************************************************************)
Display == <<"d", "i", "s", "p", "l", "a", "y">>

MarkedIn(doc) == {j \in DOMAIN doc : IsTag(doc[j]) /\ HasAttr(doc[j], "id") /\ GetAttr(doc[j], "id") = <<"e">>}

MarkedAfter == result[CHOOSE j \in MarkedIn(result) : TRUE]

StyleBefore == IF el.style = <<>> THEN <<>> ELSE el.style[1].v

EquivalentDeclaration(name) ==
    IF name \in {"strong", "b"} THEN <<"f", "o", "n", "t", "-", "w", "e", "i", "g", "h", "t", ":", "b", "o", "l", "d", ";">>
    ELSE IF name \in {"em", "i"} THEN <<"f", "o", "n", "t", "-", "s", "t", "y", "l", "e", ":", "i", "t", "a", "l", "i", "c", ";">>
    ELSE <<"t", "e", "x", "t", "-", "d", "e", "c", "o", "r", "a", "t", "i", "o", "n", ":", "u", "n", "d", "e", "r", "l", "i", "n", "e", ";">>

NoSemanticOrActiveElement ==
    \A j \in DOMAIN result :
        ~(IsTag(result[j]) /\ result[j].name \in {"strong", "b", "em", "i", "u", "script", "iframe"})

FormerSemanticIsSpan ==
    el.name \in {"strong", "b", "em", "i", "u"} =>
        /\ MarkedIn(result) # {}
        /\ MarkedAfter.kind = "open" /\ MarkedAfter.name = "span"
        /\ GetAttr(MarkedAfter, "style") = EquivalentDeclaration(el.name) \o StyleBefore

ImgHasAlt == el.name = "img" => (MarkedIn(result) # {} /\ HasAttr(MarkedAfter, "alt"))

ImgDeclaresDisplay == el.name = "img" => (MarkedIn(result) # {} /\ Declares(GetAttr(MarkedAfter, "style"), Display))

ImgKeepsDeclaredDisplay ==
    (el.name = "img" /\ Declares(StyleBefore, Display)) =>
        (MarkedIn(result) # {} /\ GetAttr(MarkedAfter, "style") = StyleBefore)

\* C16: the output of apply_email_fixes has no strong, b, em, i, u, script or iframe
\* element; a former bold, italic or underline element is a span whose style is the
\* equivalent declaration followed by its previous style; every img has an alt
\* attribute and a style with a display declaration, and an img that already had a
\* display declaration keeps its style.
SemanticTagsAndImagesFixed ==
    pc = "fixed" =>
        /\ NoSemanticOrActiveElement
        /\ FormerSemanticIsSpan
        /\ ImgHasAlt
        /\ ImgDeclaresDisplay
        /\ ImgKeepsDeclaredDisplay

\* the same, but for the display declaration only of an img whose previous style does
\* not hold the letters "display" anywhere
SemanticTagsAndImagesFixedUnlessDisplayInText ==
    pc = "fixed" =>
        /\ NoSemanticOrActiveElement
        /\ FormerSemanticIsSpan
        /\ ImgHasAlt
        /\ ~Contains(StyleBefore, Display) => ImgDeclaresDisplay
        /\ ImgKeepsDeclaredDisplay
        /\ (el.name = "img" /\ Contains(StyleBefore, Display)) => GetAttr(MarkedAfter, "style") = StyleBefore

(***************************************************************************)
(* The slot locators.                                                      *)
(***************************************************************************)
\* soup.find('h1', class_='headline-mobile')
find_headline(t) == FindFirst(t, NoNode, LAMBDA n : HasClass(n, "h1", "headline-mobile"))

\* the loop of _update_author_block: the first td with the classes tablebox and table-box-mobile
find_author_td(t) ==
    FindFirst(t, NoNode, LAMBDA n : HasClass(n, "td", "tablebox") /\ "table-box-mobile" \in n.cls)

(***************************************************************************)
(* SpecLocate: the four locators are called on a template, and called      *)
(* again on the same, unmutated template.  The template is a table of rows *)
(* of several kinds, with or without the class email-container and the     *)
(* tbody; el is the element handed to _outer_email_tr.                     *)
(***************************************************************************)
MaxCells == 3

CellKinds == {"plain", "tablebox", "both", "cream", "nested"}

LocateRow(j, kind) ==
    << Tag(<<"row", j>>, 2, "tr", {}, Absent),
       Tag(<<"cell", j>>, 3, "td",
           IF kind = "plain" THEN {}
           ELSE IF kind \in {"tablebox", "nested"} THEN {"tablebox"}
           ELSE {"tablebox", "table-box-mobile"},
           IF kind = "cream" THEN CreamStyle ELSE Absent) >>
    \o (IF kind = "nested"
        THEN << Tag(<<"inner_table", j>>, 4, "table", {"email-container"}, Absent),
                Tag(<<"inner_tbody", j>>, 5, "tbody", {}, Absent),
                Tag(<<"inner_row", j>>, 6, "tr", {}, Absent),
                Tag(<<"inner_cell", j>>, 7, "td", {"tablebox", "table-box-mobile"}, CreamStyle),
                Tag(<<"inner_h1", j>>, 8, "h1", {"headline-mobile"}, Absent) >>
        ELSE << Tag(<<"h1", j>>, 4, "h1", IF kind = "plain" THEN {} ELSE {"headline-mobile"}, Absent),
                Str(<<"h1_text", j>>, 5, "Title") >>)

\* without the tbody the rows are children of the table
LocateTemplate(container, tbody, cells) ==
    LET rows == Concat([j \in DOMAIN cells |-> LocateRow(j, cells[j])])
    IN  <<Tag(<<"main_table", 1>>, 0, "table", IF container THEN {"email-container"} ELSE {}, Absent)>>
        \o (IF tbody THEN <<Tag(<<"main_tbody", 1>>, 1, "tbody", {}, Absent)>> \o rows
            ELSE Shift(rows, -1))

IdOf(t, k) == IF k = NoNode THEN <<"None", 0>> ELSE t[k].id

\* the four locators, each answer kept as the node it names
locate(t, element) ==
    [headline |-> IdOf(t, find_headline(t)),
     author_td |-> IdOf(t, find_author_td(t)),
     marketing_author_td |-> IdOf(t, find_marketing_author_td(t)),
     outer_tr |-> IdOf(t, outer_email_tr(t, element))]

InitLocate ==
    /\ \E container \in BOOLEAN, tbody \in BOOLEAN, cells \in StrSet(CellKinds, MaxCells) :
          soup = LocateTemplate(container, tbody, cells)
    /\ el \in {k \in DOMAIN soup : soup[k].name \in {"tr", "td", "h1"}}
    /\ pc = "start"
    /\ locals = None
    /\ result = None
    /\ html = <<>>
    /\ inline_graphs = <<>>
    /\ fields = None
    /\ template_type = "none"
    /\ MapperIdle

Locate ==
    /\ pc = "start"
    /\ result' = locate(soup, el)
    /\ pc' = "located"
    /\ UNCHANGED <<html, el, locals, inline_graphs, treeVars, mapperVars>>

LocateAgain ==
    /\ pc = "located"
    /\ locals' = [again |-> locate(soup, el)]
    /\ pc' = "relocated"
    /\ UNCHANGED <<html, el, result, inline_graphs, treeVars, mapperVars>>

NextLocate == Locate \/ LocateAgain

SpecLocate == InitLocate /\ [][NextLocate]_vars

(***************************************************************************)
(* The matches of each descriptor, read off the tree node by node.         *)
(***************************************************************************)
\* id names the first node of S in document order, or nothing when S is empty
NamesFirstOf(id, S) ==
    IF S = {} THEN id = <<"None", 0>>
    ELSE \E k \in S : soup[k].id = id /\ \A j \in S : k <= j

HeadlineMatches == {k \in DOMAIN soup : soup[k].name = "h1" /\ "headline-mobile" \in soup[k].cls}

AuthorTdMatches ==
    {k \in DOMAIN soup : soup[k].name = "td" /\ {"tablebox", "table-box-mobile"} \subseteq soup[k].cls}

MarketingAuthorTdMatches == {k \in AuthorTdMatches : soup[k].style = CreamStyle}

IsChildOf(k, parent) == parent < k /\ soup[k].depth = soup[parent].depth + 1 /\ \A m \in (parent + 1)..k : soup[m].depth > soup[parent].depth

IsBelow(k, top) == top < k /\ \A m \in (top + 1)..k : soup[m].depth > soup[top].depth

\* the rows of the main table's body that hold the element
OuterTrMatches ==
    {k \in DOMAIN soup :
        /\ soup[k].name = "tr"
        /\ IsBelow(el, k)
        /\ \E table \in DOMAIN soup, tbody \in DOMAIN soup :
              /\ soup[table].name = "table" /\ "email-container" \in soup[table].cls
              /\ \A j \in 1..(table - 1) : ~(soup[j].name = "table" /\ "email-container" \in soup[j].cls)
              /\ soup[tbody].name = "tbody" /\ IsBelow(tbody, table)
              /\ \A j \in (table + 1)..(tbody - 1) : soup[j].name # "tbody"
              /\ IsChildOf(k, tbody)}

ClosingP == <<"<", "/", "p", ">">>

\* re.search(r'</p>', html[pos:], re.IGNORECASE): pos + m.end(), or -1 for None
ClosingPEnd(h, pos) ==
    LET hits == {k \in pos..Len(h) : LitAt(h, k, ClosingP)}
    IN  IF hits = {} THEN -1 ELSE MinOf(hits) + Len(ClosingP)

\* the while loop of _split_after_nth_paragraph
RECURSIVE ParagraphSplitFrom(_, _, _, _)
ParagraphSplitFrom(h, pos, count, n) ==
    IF count >= n THEN <<Slice(h, 0, pos), Slice(h, pos, Len(h))>>
    ELSE IF ClosingPEnd(h, pos) < 0 THEN <<h, <<>>>>
    ELSE ParagraphSplitFrom(h, ClosingPEnd(h, pos), count + 1, n)

split_after_nth_paragraph(h, n) ==
    IF h = <<>> THEN <<<<>>, <<>>>> ELSE ParagraphSplitFrom(h, 0, 0, n)

fertility_split_paragraphs_first(body) ==
    IF split_after_nth_paragraph(body, 2)[2] # <<>>
    THEN split_after_nth_paragraph(body, 2)
    ELSE split_at_first_heading(body)

\* intro_html, main_html of _replace_fertility_body
fertility_split(body) ==
    IF split_at_first_heading(body)[2] = <<>>
    THEN split_after_nth_paragraph(body, 2)
    ELSE split_at_first_heading(body)

(***************************************************************************)
(* SpecFertilitySplit: one split of an article body per behaviour; the     *)
(* body is put together from paragraph tags in both cases, headings, near  *)
(* misses and text.                                                        *)
(***************************************************************************)
BodyPieces ==
    { <<"<", "p", ">">>, <<"<", "/", "p", ">">>, <<"<", "/", "P", ">">>, <<"<", "/", "p">>, <<"<", "h", "2", ">">>, <<"<", "h", "3", ">">>, <<"a">> }

InitFertilitySplit ==
    /\ html \in {Concat(parts) : parts \in StrSet(BodyPieces, MaxPieces)}
    /\ pc = "start"
    /\ result = None
    /\ el = None
    /\ locals = None
    /\ inline_graphs = <<>>
    /\ MapperIdle
    /\ TreeIdle

SplitBody ==
    /\ result' = fertility_split(html)
    /\ pc' = "split"
    /\ UNCHANGED <<html, el, locals, inline_graphs, treeVars, mapperVars>>

\* main_html of _split_at_first_heading is kept
FertilityHeadingSplit ==
    /\ pc = "start"
    /\ split_at_first_heading(html)[2] # <<>>
    /\ SplitBody

\* if not main_html: the split after the 2nd paragraph
FertilityParagraphSplit ==
    /\ pc = "start"
    /\ split_at_first_heading(html)[2] = <<>>
    /\ SplitBody

NextFertilitySplit == FertilityHeadingSplit \/ FertilityParagraphSplit

SpecFertilitySplit == InitFertilitySplit /\ [][NextFertilitySplit]_vars

(***************************************************************************)
(* The body read character by character.                                   *)
(***************************************************************************)
\* a closing </p> ends at index k of s (k characters stand before its end)
ClosesParagraph(s, k) ==
    /\ k >= 4
    /\ SubSeq(s, k - 3, k) \in {<<"<", "/", c, ">">> : c \in {"p", "P"}}

ParagraphEnds(s) == {k \in 1..Len(s) : ClosesParagraph(s, k)}

HasHeading(s) == \E k \in 0..Len(s) : OpensHeading(s, k)

\* the end of the second closing </p>
SecondParagraphEnd(s) ==
    CHOOSE k \in ParagraphEnds(s) : Cardinality({j \in ParagraphEnds(s) : j < k}) = 1

\* C19: in the fertility variant a body without an h1/h2 heading is split right
\* after its second closing </p>; with fewer than two </p> the intro is the whole
\* body and the main part is empty; intro + main is always the body; and a body with
\* a heading is never split by the paragraph rule (it is split at its first heading).
FertilitySplitRule ==
    pc = "split" =>
        /\ result[1] \o result[2] = html
        /\ (~HasHeading(html) /\ Cardinality(ParagraphEnds(html)) >= 2) =>
              Len(result[1]) = SecondParagraphEnd(html)
        /\ (~HasHeading(html) /\ Cardinality(ParagraphEnds(html)) < 2) =>
              (result[1] = html /\ result[2] = <<>>)
        /\ HasHeading(html) =>
              /\ OpensHeading(html, Len(result[1]))
              /\ \A k \in 0..(Len(result[1]) - 1) : ~OpensHeading(html, k)

\* a body of three paragraphs without a heading, split behind the second
FertilitySplitWitness ==
    /\ pc = "split"
    /\ ~HasHeading(html)
    /\ Cardinality(ParagraphEnds(html)) >= 2
    /\ result[2] # <<>>
    /\ Len(result[1]) > 8

\* a body with two paragraphs in front of its heading, split at the heading
FertilityHeadingWitness ==
    /\ pc = "split"
    /\ HasHeading(html)
    /\ Cardinality(ParagraphEnds(html)) >= 2
    /\ OpensHeading(html, Len(result[1]))
    /\ Len(result[1]) > SecondParagraphEnd(html)

(***************************************************************************)
(* _update_paid_digest_cards.                                              *)
(***************************************************************************)
DMSans == "font-family: 'DM Sans', Arial, sans-serif;"

ReadMore == "Read more"

\* article.get(key, ''): an article is known by its name and each of its values by
\* the name and the key; article_b has no image_url
ArticleField(article, key) ==
    IF key = "image_url" /\ article = "article_b" THEN "" ELSE article \o " " \o key

articles_of_first_section(sections) == IF sections = <<>> THEN <<>> ELSE sections[1].articles

\* all_articles: the articles of the sections, section after section
all_articles(sections) == Concat([j \in DOMAIN sections |-> sections[j].articles])

\* for img in card.find_all('img'): src (when image_url is not empty) and alt
UpdateImgs(t, card, article) ==
    [k \in DOMAIN t |->
        IF k \in FindAll(t, card, LAMBDA x : IsNamed(x, "img"))
        THEN [t[k] EXCEPT !.alt = ArticleField(article, "title"),
                          !.src = IF ArticleField(article, "image_url") # ""
                                  THEN ArticleField(article, "image_url") ELSE @]
        ELSE t[k]]

\* h3 = card.find('h3'): the title
UpdateH3(t, card_id, n, article) ==
    LET h3 == FindFirst(t, IndexOf(t, card_id), LAMBDA x : IsNamed(x, "h3"))
    IN  IF h3 = NoNode THEN t ELSE SetText(t, h3, <<"new_card_title", n>>, ArticleField(article, "title"))

\* subtitle_p = card.find('p', style=re.compile(r'DM Sans', re.I))
UpdateSubtitle(t, card_id, n, article) ==
    LET p == FindFirst(t, IndexOf(t, card_id), LAMBDA x : IsNamed(x, "p") /\ x.style = DMSans)
    IN  IF p = NoNode THEN t ELSE SetText(t, p, <<"new_card_subtitle", n>>, ArticleField(article, "subtitle"))

\* the first a of the card whose text holds 'read more' gets the url
UpdateReadMore(t, card_id, article) ==
    LET card == IndexOf(t, card_id)
        a == FirstOf({k \in FindAll(t, card, LAMBDA x : IsNamed(x, "a")) : TextHas(t, k, ReadMore)})
    IN  IF a = NoNode THEN t ELSE [t EXCEPT ![a].href = ArticleField(article, "url")]

\* the body of the loop over card_tables
update_card(t, card_id, n, article) ==
    UpdateReadMore(
        UpdateSubtitle(
            UpdateH3(UpdateImgs(t, IndexOf(t, card_id), article), card_id, n, article),
            card_id, n, article),
        card_id, article)

\* for i, card in enumerate(card_tables): break at i >= len(all_articles)
RECURSIVE UpdateCardsFrom(_, _, _, _)
UpdateCardsFrom(t, cards, articles, n) ==
    IF n > Len(cards) \/ n > Len(articles) THEN t
    ELSE UpdateCardsFrom(update_card(t, cards[n], n, articles[n]), cards, articles, n + 1)

\* for i, h2 in enumerate(section_headings): if i < len(sections)
RECURSIVE UpdateHeadingsFrom(_, _, _, _)
UpdateHeadingsFrom(t, headings, sections, n) ==
    IF n > Len(headings) THEN t
    ELSE UpdateHeadingsFrom(
             IF n <= Len(sections)
             THEN SetText(t, IndexOf(t, headings[n]), <<"new_section_name", n>>, sections[n].name)
             ELSE t,
             headings, sections, n + 1)

\* _update_paid_digest_cards(soup, fields)
update_paid_digest_cards(t, sections) ==
    LET section_headings == IdsInOrder(t, FindAll(t, NoNode, LAMBDA x : HasClass(x, "h2", "section-title")))
        named == UpdateHeadingsFrom(t, section_headings, sections, 1)
        card_tables == IdsInOrder(named, FindAll(named, NoNode, LAMBDA x : HasClass(x, "table", "newsletter-card")))
    IN  UpdateCardsFrom(named, card_tables, all_articles(sections), 1)

(***************************************************************************)
(* SpecPaidDigest: one _update_paid_digest_cards call per behaviour.  The  *)
(* template is a run of section headings, cards, cards that have a title   *)
(* only, and headings without the class; the sections come with none, one  *)
(* or two articles each.                                                   *)
(***************************************************************************)
MaxItems == 3

MaxSections == 2

ItemKinds == {"heading", "card", "title_card", "plain_h2"}

SectionArticles == {<<>>, <<"article_a">>, <<"article_b">>, <<"article_b", "article_a">>}

DigestItem(j, kind) ==
    IF kind \in {"heading", "plain_h2"}
    THEN << Tag(<<"item", j>>, 0, "h2", IF kind = "heading" THEN {"section-title"} ELSE {}, Absent),
            Str(<<"item_text", j>>, 1, "Template section") >>
    ELSE << Tag(<<"item", j>>, 0, "table", {"newsletter-card"}, Absent) >>
         \o (IF kind = "card"
             THEN << Img(<<"img_mobile", j>>, 1, {"mobile"}, "Template image"),
                     Img(<<"img_desktop", j>>, 1, {"desktop"}, "Template image") >>
             ELSE <<>>)
         \o << Tag(<<"h3", j>>, 1, "h3", {}, Absent), Str(<<"h3_text", j>>, 2, "Template title") >>
         \o (IF kind = "card"
             THEN << Tag(<<"p", j>>, 1, "p", {}, DMSans), Str(<<"p_text", j>>, 2, "Template subtitle"),
                     Link(<<"title_link", j>>, 1, "template_url", Absent), Str(<<"title_link_text", j>>, 2, "Template title"),
                     Link(<<"read_more", j>>, 1, "template_url", Absent), Str(<<"read_more_text", j>>, 2, ReadMore) >>
             ELSE <<>>)

DigestTemplate(items) == Concat([j \in DOMAIN items |-> DigestItem(j, items[j])])

InitPaidDigest ==
    /\ \E items \in StrSet(ItemKinds, MaxItems) :
          /\ el = items
          /\ soup = DigestTemplate(items)
    /\ \E lists \in StrSet(SectionArticles, MaxSections) :
          fields = [sections |-> [j \in DOMAIN lists |-> [name |-> "Section " \o ToString(j), articles |-> lists[j]]]]
    /\ template_type = "paid_digest"
    /\ pc = "_update_paid_digest_cards"
    /\ html = <<>>
    /\ result = None
    /\ locals = None
    /\ inline_graphs = <<>>
    /\ MapperIdle

UpdatePaidDigestCards ==
    /\ pc = "_update_paid_digest_cards"
    /\ template_type = "paid_digest"
    /\ soup' = update_paid_digest_cards(soup, fields.sections)
    /\ pc' = "updated"
    /\ UNCHANGED <<html, result, el, locals, inline_graphs, fields, template_type, mapperVars>>

NextPaidDigest == UpdatePaidDigestCards

SpecPaidDigest == InitPaidDigest /\ [][NextPaidDigest]_vars

(***************************************************************************)
(* The template's headings and cards by position, and the article that     *)
(* stands at a position of the sections read one after the other.          *)
(***************************************************************************)
DigestCards == {j \in DOMAIN el : el[j] \in {"card", "title_card"}}

DigestHeadings == {j \in DOMAIN el : el[j] = "heading"}

\* the item is the n-th of its kind (n counts from 1)
PlaceAmong(j, S) == Cardinality({m \in S : m <= j})

\* the places <<section, index in the section>> of the articles, and the n-th of them
ArticlePlaces ==
    UNION {{<<s, a>> : a \in 1..Len(fields.sections[s].articles)} : s \in DOMAIN fields.sections}

Before(p, q) == p[1] < q[1] \/ (p[1] = q[1] /\ p[2] < q[2])

ArticleAtPlace(n) ==
    LET p == CHOOSE q \in ArticlePlaces : Cardinality({r \in ArticlePlaces : Before(r, q)}) = n - 1
    IN  fields.sections[p[1]].articles[p[2]]

\* the part of the tree under an item, as it is now and as the template had it
ItemNow(j) ==
    LET k == IndexOf(soup, <<"item", j>>) IN SubSeq(soup, k, SubtreeEnd(soup, k))

ItemBefore(j) == DigestItem(j, el[j])

TextOf(id) == Texts(soup, IndexOf(soup, id))

CardHolds(j, article) ==
    /\ TextOf(<<"h3", j>>) = {article \o " title"}
    /\ el[j] = "card" =>
          /\ TextOf(<<"p", j>>) = {article \o " subtitle"}
          /\ NodeOf(<<"read_more", j>>).href = article \o " url"
          /\ \A id \in {<<"img_mobile", j>>, <<"img_desktop", j>>} :
                /\ NodeOf(id).alt = article \o " title"
                /\ NodeOf(id).src = IF article = "article_b" THEN "template.png" ELSE article \o " image_url"

\* C20: the i-th newsletter-card table in document order receives the i-th article of
\* the sections' article lists read one after the other in section order, and the
\* i-th section-title heading receives the name of the i-th section; cards beyond the
\* number of articles and headings beyond the number of sections are left unchanged.
PaidDigestPositional ==
    pc = "updated" =>
        /\ \A j \in DigestCards :
              IF PlaceAmong(j, DigestCards) <= Cardinality(ArticlePlaces)
              THEN CardHolds(j, ArticleAtPlace(PlaceAmong(j, DigestCards)))
              ELSE ItemNow(j) = ItemBefore(j)
        /\ \A j \in DigestHeadings :
              IF PlaceAmong(j, DigestHeadings) <= Len(fields.sections)
              THEN TextOf(<<"item", j>>) = {"Section " \o ToString(PlaceAmong(j, DigestHeadings))}
              ELSE ItemNow(j) = ItemBefore(j)
        /\ \A j \in DOMAIN el : el[j] = "plain_h2" => ItemNow(j) = ItemBefore(j)

\* two sections, the first of them without articles, and a third card that no article is left for
PaidDigestWitness ==
    /\ pc = "updated"
    /\ Len(fields.sections) = 2
    /\ fields.sections[1].articles = <<>>
    /\ Len(fields.sections[2].articles) = 2
    /\ Cardinality(DigestCards) = 3
    /\ ItemNow(3) = ItemBefore(3)
    /\ TextOf(<<"h3", 1>>) = {"article_b title"}

(***************************************************************************)
(* SpecEntry: the two ways into a build.  A request comes through the      *)
(* /generate route, or build_email_html is called directly with the        *)
(* caller's template_type, which may be any name or left out (the default  *)
(* of the parameter is 'standard').                                        *)
(***************************************************************************)
ExplicitlyDispatched == {"qa", "fertility", "marketing", "fertility_digest", "paid_digest", "latest_teaser"}

InitEntry ==
    /\ template_type \in RequestedTypes
    /\ \E elems \in StrSet(BuildElements, 1) :
          el = Serialise(Document(<<>>, <<Open("body", <<>>)>>, elems))
    /\ inline_graphs \in BuildGraphs
    /\ pc \in {"generate", "inject"}
    /\ locals = [requested |-> template_type, template_path |-> "None", injector |-> "None",
                 trace |-> IF pc = "generate" THEN <<>> ELSE <<"direct">>]
    /\ html = None
    /\ result = None
    /\ soup = <<>>
    /\ fields = None
    /\ MapperIdle

\* build_email_html(template_path, fields) without a template_type: the default 'standard'
InjectDefault ==
    /\ pc = "inject"
    /\ template_type = Absent
    /\ template_type' = "standard"
    /\ UNCHANGED <<html, pc, result, el, locals, inline_graphs, soup, fields, mapperVars>>

InjectNamed ==
    /\ template_type # Absent
    /\ Inject

NextEntry ==
    \/ Generate
    \/ InjectDefault
    \/ InjectNamed
    \/ SerialiseTree
    \/ ResolveGraphs
    \/ ResolveGraphsIndexError
    \/ TreePasses
    \/ LinkFix
    \/ GmailCssInjection
    \/ HeightFix
    \/ Return

SpecEntry == InitEntry /\ [][NextEntry]_vars

CalledDirectly == locals.trace # <<>> /\ locals.trace[1] = "direct"

UnregisteredRequestWitness ==
    /\ ~CalledDirectly
    /\ locals.requested = "paid_digest"
    /\ template_type = "standard"
    /\ pc = "returned" /\ result # None

(***************************************************************************)
(* SpecHeightFrame: one _fix_iterable_heights call per behaviour, on one   *)
(* element whose style holds up to MaxDecls declarations, among them       *)
(* heights and other properties whose name ends in height.                 *)
(***************************************************************************)
FrameElements == {"table", "tr", "td", "div", "p", "img"}

FrameDecls ==
    { <<"h", "e", "i", "g", "h", "t", ":", "3", "0", "0", "p", "x">>, <<"h", "e", "i", "g", "h", "t", ":", "2", "0", "p", "x">>, <<"H", "e", "i", "g", "h", "t", ":", " ", "8", "1", ".", "5", "p", "x">>,
      <<"l", "i", "n", "e", "-", "h", "e", "i", "g", "h", "t", ":", "2", "2", ".", "5", "p", "x">>, <<"l", "i", "n", "e", "-", "h", "e", "i", "g", "h", "t", ":", "2", "4", "p", "x">>, <<"m", "i", "n", "-", "h", "e", "i", "g", "h", "t", ":", "3", "0", "0", "p", "x">>,
      <<"m", "a", "x", "-", "h", "e", "i", "g", "h", "t", ":", " ", "1", "0", "0", "0", "p", "x">>, <<"w", "i", "d", "t", "h", ":", "3", "0", "0", "p", "x">>, <<"w", "i", "d", "t", "h", ":", "8", "1", ".", "5", "p", "x">> }

InitHeightFrame ==
    /\ \E name \in FrameElements, ds \in StrSet(FrameDecls, MaxDecls) :
          /\ el = [name |-> name, decls |-> ds]
          /\ html = <<Open(name, <<Attr("style", JoinDecls(ds))>>), X, Close(name)>>
    /\ pc = "start"
    /\ result = None
    /\ locals = None
    /\ inline_graphs = <<>>
    /\ MapperIdle
    /\ TreeIdle

FixHeightFrame ==
    /\ pc = "start"
    /\ el.name \in FrameElements
    /\ result' = fix_iterable_heights(html)
    /\ pc' = "done"
    /\ UNCHANGED <<html, locals, el, inline_graphs, treeVars, mapperVars>>

NextHeightFrame == FixHeightFrame

SpecHeightFrame == InitHeightFrame /\ [][NextHeightFrame]_vars

(***************************************************************************)
(* The style before and after, declaration by declaration.                 *)
(***************************************************************************)
FrameStyleAfter == SplitOn(GetAttr(result[1], "style"), ";")

HeightName == <<"h", "e", "i", "g", "h", "t">>

EndsInHeight(name) ==
    Len(name) >= Len(HeightName) /\ SubSeq(name, Len(name) - Len(HeightName) + 1, Len(name)) = HeightName

FrameShapeKept ==
    /\ Len(result) = Len(html)
    /\ result[1].name = el.name /\ result[1].kind = "open"
    /\ Len(el.decls) > 0 => Len(FrameStyleAfter) = Len(el.decls)
    /\ \A j \in 2..Len(html) : result[j] = html[j]

\* C28: _fix_iterable_heights changes nothing but height declarations of table, tr
\* and td elements: a declaration of another property, also one whose name ends in
\* height (line-height, min-height, max-height), keeps its value even when it is
\* fractional or 300px and more, and the style of every other element is unchanged.
OnlyHeightDeclarationsChange ==
    pc = "done" =>
        /\ FrameShapeKept
        /\ el.name \notin {"table", "tr", "td"} => result = html
        /\ \A j \in DOMAIN el.decls :
              DeclName(el.decls[j]) # HeightName => FrameStyleAfter[j] = el.decls[j]

\* what holds: declarations of properties whose name does not end in height keep
\* their value, and so does every style of an element other than table, tr and td
OnlyDeclarationsEndingInHeightChange ==
    pc = "done" =>
        /\ FrameShapeKept
        /\ el.name \notin {"table", "tr", "td"} => result = html
        /\ \A j \in DOMAIN el.decls :
              ~EndsInHeight(DeclName(el.decls[j])) => FrameStyleAfter[j] = el.decls[j]

\* on a table, tr or td a fractional or large px value of line-height, min-height or
\* max-height becomes auto like a height
OtherHeightsBecomeAuto ==
    (pc = "done" /\ el.name \in {"table", "tr", "td"}) =>
        \A j \in DOMAIN el.decls :
            el.decls[j] \in {<<"l", "i", "n", "e", "-", "h", "e", "i", "g", "h", "t", ":", "2", "2", ".", "5", "p", "x">>, <<"m", "i", "n", "-", "h", "e", "i", "g", "h", "t", ":", "3", "0", "0", "p", "x">>} =>
                DeclText(FrameStyleAfter[j]) = <<"a", "u", "t", "o">>

(***************************************************************************)
(* The branches of the split offset under SpecFade.                        *)
(***************************************************************************)
\* a character of the text that is not white space
HasVisibleCharacter(s) ==
    \E k \in DOMAIN s : s[k] \notin {" ", "\t", "\n", "\r"}

InSeq(x, s) == \E j \in DOMAIN s : s[j] = x

\* C29: in _split_fade_paragraph the exact-midpoint branch is unreachable: for every
\* block whose plain text is not blank the list of word-boundary candidates is not
\* empty, so the split offset is a sentence end or a word end and never the raw
\* midpoint taken by the last else.
MidpointBranchUnreachable ==
    (pc = "done" /\ HasVisibleCharacter(el.plain_text)) =>
        /\ WordEndsFrom(el.plain_text, 0) # <<>>
        /\ locals.branch \in {"sentence", "word"}
        /\ \/ InSeq(locals.split_pos, SentenceEndsFrom(el.plain_text, 0))
           \/ InSeq(locals.split_pos, WordEndsFrom(el.plain_text, 0))

\* a block of one word without a sentence end or white space has been split at the word's end
MidpointWitness ==
    /\ pc = "done"
    /\ HasVisibleCharacter(el.plain_text)
    /\ locals.branch = "word"
    /\ \A k \in DOMAIN el.plain_text : el.plain_text[k] \notin {" ", ".", "!"}
    /\ locals.split_pos = Len(el.plain_text)
    /\ locals.split_pos # locals.mid

(***************************************************************************)
(* SpecAuthor: one call of _update_author_block or _update_marketing_author *)
(* on an author block, with an author name of up to MaxNameLen characters, *)
(* white space among them.  Texts are character sequences here.            *)
(***************************************************************************)
MaxNameLen == 3

NameAlphabet == {" ", "\t", "E", "o"}

IndexError == <<"IndexError">>

\* str.split(): the runs of characters that are not white space, scanning from k
RECURSIVE SplitFrom(_, _)
SplitFrom(s, k) ==
    LET start == SkipWhile(s, k, TRUE)
        stop  == SkipWhile(s, start, FALSE)
    IN  IF start >= Len(s) THEN <<>>
        ELSE <<Slice(s, start, stop)>> \o SplitFrom(s, stop)

\* author_name.split()[0] if author_name else 'Author'
first_name(author_name) ==
    IF author_name # <<>>
    THEN (IF SplitFrom(author_name, 0) = <<>> THEN IndexError ELSE SplitFrom(author_name, 0)[1])
    ELSE <<"A", "u", "t", "h", "o", "r">>

\* f'About {first_name}'
about(name) == <<"A", "b", "o", "u", "t", " ">> \o name

\* _update_author_block(soup, fields)
update_author_block(t, f) ==
    LET author_td  == find_author_td(t)
        paragraphs == IdsInOrder(t, FindAll(t, author_td, LAMBDA n : n.name = "p"))
        first      == first_name(f.author_name)
        named      == IF Len(paragraphs) >= 1
                      THEN SetText(t, IndexOf(t, paragraphs[1]), <<"new_author", 1>>, f.author_name)
                      ELSE t
        titled     == IF Len(paragraphs) >= 2
                      THEN SetText(named, IndexOf(named, paragraphs[2]), <<"new_author", 2>>, f.author_title)
                      ELSE named
        link       == IF Len(paragraphs) >= 3
                      THEN FindFirst(titled, IndexOf(titled, paragraphs[3]), LAMBDA n : n.name = "a")
                      ELSE NoNode
        linked     == IF link # NoNode
                      THEN SetText([titled EXCEPT ![link].href = f.author_url],
                                   link, <<"new_author", 3>>, about(first))
                      ELSE titled
    IN  IF author_td = NoNode THEN Done(t)
        ELSE IF first = IndexError THEN Raised(t)
        ELSE Done(linked)

\* _update_marketing_author(soup, fields), the name taken from fields
update_marketing_author_named(t, f) ==
    LET author_td == find_marketing_author_td(t)
        first     == first_name(f.author_name)
        author_p  == FindFirst(t, author_td, LAMBDA n : n.name = "p" /\ n.style = AuthorNameStyle)
        named     == SetText(t, author_p, <<"new_author", 1>>, f.author_name)
        title_p   == FindNextSibling(named, author_p, "p")
        titled    == IF title_p # NoNode
                     THEN SetText(named, title_p, <<"new_author", 2>>, f.author_title)
                     ELSE named
        link      == FindNext(titled, author_p, "a")
        linked    == IF link # NoNode
                     THEN SetText([titled EXCEPT ![link].href = f.author_url],
                                  link, <<"new_author", 3>>, about(first))
                     ELSE titled
    IN  IF author_td = NoNode THEN Done(t)
        ELSE IF first = IndexError THEN Raised(t)
        ELSE IF author_p = NoNode THEN Done(t)
        ELSE Done(linked)

AuthorLinkId == <<"author_link", 1>>

\* the author cell of the standard templates: up to three paragraphs (name, title,
\* link), the third with or without its anchor
StandardAuthorBlock(found, paragraphs, link) ==
    <<Tag(<<"author_td", 1>>, 0, "td",
          IF found THEN {"tablebox", "table-box-mobile"} ELSE {"tablebox"}, Absent)>>
    \o (IF paragraphs >= 1
        THEN <<Tag(<<"author_p", 1>>, 1, "p", {}, Absent), Str(<<"author_p", 2>>, 2, <<"N", "a", "m", "e">>)>>
        ELSE <<>>)
    \o (IF paragraphs >= 2
        THEN <<Tag(<<"title_p", 1>>, 1, "p", {}, Absent), Str(<<"title_p", 2>>, 2, <<"T", "i", "t", "l", "e">>)>>
        ELSE <<>>)
    \o (IF paragraphs >= 3
        THEN <<Tag(<<"link_p", 1>>, 1, "p", {}, Absent)>>
             \o (IF link
                 THEN <<Link(AuthorLinkId, 2, "template.url", Absent),
                        Str(<<"author_link", 2>>, 3, <<"A", "b", "o", "u", "t", " ", "N", "a", "m", "e">>)>>
                 ELSE <<>>)
        ELSE <<>>)

\* the author cell of the marketing template
MarketingAuthorBlock(found, paragraphs, link) ==
    <<Tag(<<"author_td", 1>>, 0, "td", {"tablebox", "table-box-mobile"},
          IF found THEN CreamStyle ELSE Absent)>>
    \o (IF paragraphs >= 1
        THEN <<Tag(<<"author_p", 1>>, 1, "p", {}, AuthorNameStyle), Str(<<"author_p", 2>>, 2, <<"N", "a", "m", "e">>)>>
        ELSE <<>>)
    \o (IF paragraphs >= 2
        THEN <<Tag(<<"title_p", 1>>, 1, "p", {}, Absent), Str(<<"title_p", 2>>, 2, <<"T", "i", "t", "l", "e">>)>>
        ELSE <<>>)
    \o (IF paragraphs >= 3
        THEN <<Tag(<<"link_p", 1>>, 1, "p", {}, Absent)>>
             \o (IF link
                 THEN <<Link(AuthorLinkId, 2, "template.url", Absent),
                        Str(<<"author_link", 2>>, 3, <<"A", "b", "o", "u", "t", " ", "N", "a", "m", "e">>)>>
                 ELSE <<>>)
        ELSE <<>>)

InitAuthor ==
    /\ \E found \in BOOLEAN, paragraphs \in 0..3, link \in BOOLEAN :
          /\ el = [found |-> found, paragraphs |-> paragraphs, link |-> link]
          /\ \/ /\ template_type = "standard"
                /\ soup = StandardAuthorBlock(found, paragraphs, link)
             \/ /\ template_type = "marketing"
                /\ soup = MarketingAuthorBlock(found, paragraphs, link)
    /\ \E name \in StrSet(NameAlphabet, MaxNameLen) :
          fields = [author_name |-> name, author_title |-> <<"E", "c", "o", "n", "o", "m", "i", "s", "t">>,
                    author_url |-> "fields.author_url"]
    /\ locals = soup
    /\ pc = "start"
    /\ result = None
    /\ html = <<>>
    /\ inline_graphs = <<>>
    /\ MapperIdle

UpdateAuthorBlock ==
    /\ pc = "start"
    /\ template_type = "standard"
    /\ soup' = update_author_block(soup, fields).soup
    /\ pc' = IF update_author_block(soup, fields).raised THEN "raised" ELSE "done"
    /\ UNCHANGED <<html, result, el, locals, inline_graphs, fields, template_type, mapperVars>>

UpdateMarketingAuthor ==
    /\ pc = "start"
    /\ template_type = "marketing"
    /\ soup' = update_marketing_author_named(soup, fields).soup
    /\ pc' = IF update_marketing_author_named(soup, fields).raised THEN "raised" ELSE "done"
    /\ UNCHANGED <<html, result, el, locals, inline_graphs, fields, template_type, mapperVars>>

NextAuthor == UpdateAuthorBlock \/ UpdateMarketingAuthor

SpecAuthor == InitAuthor /\ [][NextAuthor]_vars

(***************************************************************************)
(* The link text, from the name's characters.                              *)
(***************************************************************************)
Visible(s) == {k \in DOMAIN s : s[k] \notin {" ", "\t", "\n", "\r"}}

\* the first white-space-delimited word: from the first visible character up to the
\* next white space
FirstWord(s) ==
    LET from  == MinOf(Visible(s))
        stops == {k \in from..Len(s) : k \notin Visible(s)}
    IN  SubSeq(s, from, IF stops = {} THEN Len(s) ELSE MinOf(stops) - 1)

ExpectedLinkText(s) ==
    IF Visible(s) = {} THEN <<"A", "b", "o", "u", "t", " ", "A", "u", "t", "h", "o", "r">> ELSE <<"A", "b", "o", "u", "t", " ">> \o FirstWord(s)

\* the text inside the About link as the tree stands
LinkTextNow ==
    LET k == IndexOf(soup, AuthorLinkId)
    IN  IF k # NoNode /\ k < Len(soup) /\ soup[k + 1].name = "#text" THEN soup[k + 1].text ELSE None

\* the function reached the statement that writes the link
LinkSlotReached ==
    /\ el.found
    /\ el.paragraphs >= 3
    /\ el.link

\* C30: for every author name, the empty and the white-space-only ones included,
\* _update_author_block and _update_marketing_author complete without raising, and the
\* link text is 'About ' plus the first white-space-delimited word of the name, or
\* 'About Author' when the name has no word.
AuthorLinkTextForEveryName ==
    pc # "start" =>
        /\ pc = "done"
        /\ LinkSlotReached => LinkTextNow = ExpectedLinkText(fields.author_name)

\* what holds: for the empty name and for every name with a word the call completes
\* and the link text is as claimed
AuthorLinkTextForNamesWithAWord ==
    (pc # "start" /\ (fields.author_name = <<>> \/ Visible(fields.author_name) # {})) =>
        /\ pc = "done"
        /\ LinkSlotReached => LinkTextNow = ExpectedLinkText(fields.author_name)

\* a name of white space only raises IndexError once the author cell is found, before
\* anything is written
BlankNameRaises ==
    (pc # "start" /\ fields.author_name # <<>> /\ Visible(fields.author_name) = {}) =>
        /\ soup = locals
        /\ pc = (IF el.found THEN "raised" ELSE "done")

(***************************************************************************)
(* _inject_teaser_body.  A block of the article body is what the parser    *)
(* hands over for a top-level element: its name, its class and style, and  *)
(* its content as units (characters, an <img> tag).  `at` is the block's   *)
(* place in the body; the featured image built by the function has at = 0. *)
(***************************************************************************)
FadeKeyLen == 60

MaxBlocks == 3

ImgUnit == [markup |-> <<"<", "i", "m", "g", ">">>, text |-> <<>>]

CharUnits(s) == [k \in DOMAIN s |-> [markup |-> <<s[k]>>, text |-> <<s[k]>>]]

Repeat(c, n) == [k \in 1..n |-> c]

\* one character of s.lower().replace(...)...: the curly quotes, the dashes and the
\* replacement character are written by their code points
norm_char(c) ==
    IF c \in {"U+2018", "U+2019", "U+FFFD"} THEN "'"
    ELSE IF c \in {"U+201C", "U+201D"} THEN "\""
    ELSE IF c \in {"U+2013", "U+2014"} THEN "-"
    ELSE Lower(c)

\* _norm_fade(s)
norm_fade(s) == [k \in DOMAIN s |-> norm_char(s[k])]

\* key in s
Within(key, s) == \E k \in 0..(Len(s) - Len(key)) : SubSeq(s, k + 1, k + Len(key)) = key

\* the last block that holds the key, where the code takes the first
RECURSIVE FadeScanLast(_, _, _)
FadeScanLast(blocks, fade_key, n) ==
    IF n < 1 THEN Len(blocks)
    ELSE IF fade_key # <<>> /\ Within(fade_key, norm_fade(get_text(blocks[n].units))) THEN n - 1
    ELSE FadeScanLast(blocks, fade_key, n - 1)

fade_index_last(blocks, raw) ==
    LET fade_from == LowerAll(Strip(raw))
    IN  IF fade_from # <<>>
        THEN FadeScanLast(blocks, norm_fade(Slice(fade_from, 0, FadeKeyLen)), Len(blocks))
        ELSE Len(blocks)

\* for i, el in enumerate(blocks): ... fade_idx = i; break   (i counted from 0)
RECURSIVE FadeScan(_, _, _)
FadeScan(blocks, fade_key, n) ==
    IF n > Len(blocks) THEN Len(blocks)
    ELSE IF fade_key # <<>> /\ Within(fade_key, norm_fade(get_text(blocks[n].units))) THEN n - 1
    ELSE FadeScan(blocks, fade_key, n + 1)

\* lines 360 and 374-380: fade_idx
fade_index(blocks, raw) ==
    LET fade_from == LowerAll(Strip(raw))
    IN  IF fade_from # <<>>
        THEN FadeScan(blocks, norm_fade(Slice(fade_from, 0, FadeKeyLen)), 1)
        ELSE Len(blocks)

\* _is_image_only_block(el): el.find('img') looks below el, never at el itself
is_image_only_block(b) ==
    /\ \E k \in DOMAIN b.units : b.units[k] = ImgUnit
    /\ Strip(get_text(b.units)) = <<>>

\* lines 390-397: clean_visible
RECURSIVE clean_visible(_, _)
clean_visible(visible_blocks, h2_found) ==
    IF visible_blocks = <<>> THEN <<>>
    ELSE LET b     == Head(visible_blocks)
             found == h2_found \/ b.name = "h2"
         IN  IF ~found /\ is_image_only_block(b)
             THEN clean_visible(Tail(visible_blocks), found)
             ELSE <<b>> \o clean_visible(Tail(visible_blocks), found)

\* the div around the featured image (lines 401-408)
img_el ==
    [at |-> 0, name |-> "div", cls |-> {}, units |-> <<ImgUnit>>,
     style |-> "position: relative; display: inline-block; width: 100%; margin-bottom: 24px;"]

\* lines 409-416: the image goes before the first h2, or to the end
insert_image(visible_blocks) ==
    LET heads == {k \in DOMAIN visible_blocks : visible_blocks[k].name = "h2"}
    IN  IF heads # {}
        THEN SubSeq(visible_blocks, 1, MinOf(heads) - 1) \o <<img_el>>
             \o SubSeq(visible_blocks, MinOf(heads), Len(visible_blocks))
        ELSE visible_blocks \o <<img_el>>

(***************************************************************************)
(* The body blocks the model draws from, and the trigger phrases.          *)
(***************************************************************************)
LongText == Repeat("b", FadeKeyLen)

BlockKinds ==
    { [name |-> "p", cls |-> {"lead", "fade-out-light"}, style |-> "margin: 0;",
       units |-> CharUnits(<<"I", "t", "U+2019", "s", " ", "A", ".", " ">>) \o <<ImgUnit>> \o CharUnits(LongText)],
      [name |-> "h2", cls |-> {}, style |-> Absent, units |-> CharUnits(<<"H", "e", "a", "d">>)],
      [name |-> "figure", cls |-> {}, style |-> Absent, units |-> <<ImgUnit>> \o CharUnits(<<" ">>)],
      [name |-> "img", cls |-> {}, style |-> Absent, units |-> <<>>] }

Triggers ==
    { <<>>, <<" ">>, <<" ", "I", "t", "'", "s", " ", "a", " ">>, <<"H">>, LongText \o <<"c">> }

Placed(kinds) == [n \in DOMAIN kinds |-> [at |-> n, name |-> kinds[n].name, cls |-> kinds[n].cls,
                                          style |-> kinds[n].style, units |-> kinds[n].units]]

(***************************************************************************)
(* The teaser template, as far as the function looks at it: the row of the *)
(* intro paragraph (section 4), the two-column row (section 5) and the row *)
(* of the faded content (section 6) in the main table.                     *)
(***************************************************************************)
TeaserShapes == {"full", "no_intro", "no_two_col"}

Section4Row(marked) ==
    << Tag(<<"s4", 1>>, 0, "tr", {}, Absent),
       Tag(<<"s4", 2>>, 1, "td", {}, Absent),
       Tag(<<"s4", 3>>, 2, "p", {}, Absent),
       Str(<<"s4", 4>>, 3, IF marked THEN "INTRO TEXT HERE" ELSE "Hello") >>

Section5Row ==
    << Tag(<<"s5", 1>>, 0, "tr", {}, Absent),
       Tag(<<"s5", 2>>, 1, "td", {}, Absent),
       Tag(<<"s5", 3>>, 2, "table", {}, Absent),
       Tag(<<"s5", 4>>, 3, "tbody", {}, Absent),
       Tag(<<"s5", 5>>, 4, "tr", {}, Absent),
       Tag(<<"s5", 6>>, 5, "td", {"stack-column"}, Absent),
       Tag(<<"s5", 7>>, 5, "td", {"stack-column"}, Absent),
       Img(<<"s5", 8>>, 6, {"fluid"}, "Template image") >>

Section6Row ==
    << Tag(<<"s6", 1>>, 0, "tr", {}, Absent),
       Tag(<<"s6", 2>>, 1, "td", {}, Absent),
       Tag(<<"s6", 3>>, 2, "table", {}, Absent),
       Tag(<<"s6", 4>>, 3, "tbody", {}, Absent),
       Tag(<<"s6", 5>>, 4, "tr", {}, Absent),
       Tag(<<"s6", 6>>, 5, "td", {}, Absent),
       Tag(<<"s6", 7>>, 6, "p", {"fade-out-medium"}, Absent),
       Str(<<"s6", 8>>, 7, "Template fade") >>

TeaserTemplate(shape) ==
    MainTable(Section4Row(shape # "no_intro")
              \o (IF shape # "no_two_col" THEN Section5Row ELSE <<>>)
              \o Section6Row)

SlotId == <<"s6", 6>>

(***************************************************************************)
(* Lines 419-520: the targets are captured, then section 4 and section 6   *)
(* are filled and the two-column row is removed.                           *)
(***************************************************************************)
\* the first tr with two or more direct td.stack-column children
two_col_tr_of(t) ==
    FirstOf({tr \in FindAll(t, NoNode, LAMBDA n : IsNamed(n, "tr")) :
                Cardinality(FindAllDirect(t, tr, LAMBDA n : HasClass(n, "td", "stack-column"))) >= 2})

\* lines 435-454: the td of the faded content, or None
section6_content_td_of(t, two_col_outer_tr) ==
    LET main_table == FindFirst(t, NoNode, LAMBDA n : HasClass(n, "table", "email-container"))
        main_tbody == FindFirst(t, main_table, LAMBDA n : IsNamed(n, "tbody"))
        main_rows  == FindAllDirect(t, main_tbody, LAMBDA n : IsNamed(n, "tr"))
        later      == {tr \in main_rows : tr > two_col_outer_tr}
        outer_td   == FindFirst(t, MinOf(later), LAMBDA n : IsNamed(n, "td"))
        table      == FindFirst(t, outer_td, LAMBDA n : IsNamed(n, "table"))
        tbody      == FindFirst(t, table, LAMBDA n : IsNamed(n, "tbody"))
        inner_tr   == FindFirst(t, tbody, LAMBDA n : IsNamed(n, "tr"))
    IN  IF two_col_outer_tr = NoNode \/ main_table = NoNode THEN NoNode
        ELSE IF two_col_outer_tr \notin main_rows \/ later = {} THEN NoNode
        ELSE IF outer_td = NoNode \/ table = NoNode \/ tbody = NoNode \/ inner_tr = NoNode THEN NoNode
        ELSE FindFirst(t, inner_tr, LAMBDA n : IsNamed(n, "td"))

IntroStyle ==
    "padding-bottom: 16px; margin: 0; font-family: 'DM Sans', Arial, Helvetica, sans-serif; font-weight: 400; font-style: italic; font-size: 16px; line-height: 24px; color: #000000;"

\* a block as a node of the tree (its content stays with the block)
BlockNode(b) ==
    IF b.at = 0
    THEN <<Tag(<<"featured_image", 1>>, 0, "div", {}, b.style),
           [Img(<<"featured_image", 2>>, 1, {"fluid"}, "fields.featured_image_alt")
               EXCEPT !.src = "fields.featured_image_url"]>>
    ELSE <<Tag(<<"block", b.at>>, 0, b.name, b.cls, b.style)>>

\* lines 457-482
fill_section4(t, section4_td, visible_blocks) ==
    AppendChild(Clear(t, section4_td), section4_td,
                <<Tag(<<"new_intro", 1>>, 0, "p", {}, IntroStyle), Str(<<"new_intro", 2>>, 1, "fields.intro_text"),
                  Tag(<<"new_hr", 1>>, 0, "hr", {}, "border: none; border-top: 1px solid #e0e0e0; margin: 8px 0 24px 0;")>>
                \o Concat([n \in DOMAIN visible_blocks |-> BlockNode(visible_blocks[n])]))

\* lines 494-514: the element built from the first faded block
fade_element(fade_el) ==
    LET halves       == split_fade_paragraph(Element(fade_el.units))
        base_classes == fade_el.cls \ {"fade-out-light", "fade-out-medium"}
        parts ==
            (IF halves.first # <<>>
             THEN <<Tag(<<"fade_span", 1>>, 1, "span", {}, "opacity:0.5;"),
                    Str(<<"fade_span", 2>>, 2, halves.first)>>
             ELSE <<>>)
            \o (IF halves.second # <<>>
                THEN <<Tag(<<"fade_span", 3>>, 1, "span", {}, "opacity:0.2;"),
                       Str(<<"fade_span", 4>>, 2, halves.second)>>
                ELSE <<>>)
    IN  IF parts = <<>> THEN <<>>
        ELSE <<Tag(<<"fade_el", fade_el.at>>, 0, fade_el.name, base_classes, fade_el.style)>> \o parts

\* a variant that builds an element from every faded block
fill_section6_all(t, section6_content_td, faded_blocks) ==
    AppendChild(Clear(t, section6_content_td), section6_content_td,
                Concat([n \in DOMAIN faded_blocks |-> fade_element(faded_blocks[n])]))

\* lines 491-516
fill_section6(t, section6_content_td, faded_blocks) ==
    IF faded_blocks # <<>>
    THEN AppendChild(Clear(t, section6_content_td), section6_content_td, fade_element(faded_blocks[1]))
    ELSE Clear(t, section6_content_td)

\* lines 419-520
fill_sections(t, visible_blocks, faded_blocks) ==
    LET marked           == {p \in FindAll(t, NoNode, LAMBDA n : IsNamed(n, "p")) : TextHas(t, p, "INTRO TEXT HERE")}
        section4_td      == IF marked = {} THEN NoNode ELSE FindParent(t, FirstOf(marked), "td")
        two_col_tr       == two_col_tr_of(t)
        two_col_outer_tr == IF two_col_tr # NoNode THEN outer_email_tr(t, two_col_tr) ELSE NoNode
        section6_td      == section6_content_td_of(t, two_col_outer_tr)
        id4              == IdOf(t, section4_td)
        id5              == IdOf(t, two_col_outer_tr)
        id6              == IdOf(t, section6_td)
        t4 == IF section4_td # NoNode THEN fill_section4(t, section4_td, visible_blocks) ELSE t
        t6 == IF section6_td # NoNode THEN fill_section6(t4, IndexOf(t4, id6), faded_blocks) ELSE t4
    IN  IF two_col_outer_tr # NoNode THEN Decompose(t6, IndexOf(t6, id5)) ELSE t6

(***************************************************************************)
(* SpecTeaser: one _inject_teaser_body call, step by step: the split at    *)
(* the trigger phrase, the stripping of images, the featured image, the    *)
(* sections of the template.                                               *)
(***************************************************************************)
InitTeaser ==
    /\ \E kinds \in StrSet(BlockKinds, MaxBlocks), trigger \in Triggers,
          url \in {"", "fields.featured_image_url"} :
          /\ fields = [fade_from |-> trigger, featured_image_url |-> url]
          /\ locals = [blocks |-> Placed(kinds), fade_idx |-> -1,
                       visible_blocks |-> <<>>, faded_blocks |-> <<>>]
    /\ el \in TeaserShapes
    /\ soup = TeaserTemplate(el)
    /\ template_type = "latest_teaser"
    /\ pc = "start"
    /\ result = None
    /\ html = <<>>
    /\ inline_graphs = <<>>
    /\ MapperIdle

\* lines 359-383
SplitAtFade ==
    /\ pc = "start"
    /\ template_type = "latest_teaser"
    /\ LET fade_idx == fade_index(locals.blocks, fields.fade_from)
       IN  locals' = [locals EXCEPT !.fade_idx = fade_idx,
                                    !.visible_blocks = Slice(locals.blocks, 0, fade_idx),
                                    !.faded_blocks = Slice(locals.blocks, fade_idx, Len(locals.blocks))]
    /\ pc' = "split"
    /\ UNCHANGED <<html, result, el, inline_graphs, treeVars, mapperVars>>

\* lines 385-397
StripImages ==
    /\ pc = "split"
    /\ locals' = [locals EXCEPT !.visible_blocks = clean_visible(locals.visible_blocks, FALSE)]
    /\ pc' = "stripped"
    /\ UNCHANGED <<html, result, el, inline_graphs, treeVars, mapperVars>>

\* lines 399-417, img_url given
InsertImage ==
    /\ pc = "stripped"
    /\ fields.featured_image_url # ""
    /\ locals' = [locals EXCEPT !.visible_blocks = insert_image(locals.visible_blocks)]
    /\ pc' = "inserted"
    /\ UNCHANGED <<html, result, el, inline_graphs, treeVars, mapperVars>>

\* line 400, img_url empty
NoImage ==
    /\ pc = "stripped"
    /\ fields.featured_image_url = ""
    /\ pc' = "inserted"
    /\ UNCHANGED <<html, result, el, locals, inline_graphs, treeVars, mapperVars>>

\* lines 419-520
FillSections ==
    /\ pc = "inserted"
    /\ soup' = fill_sections(soup, locals.visible_blocks, locals.faded_blocks)
    /\ pc' = "done"
    /\ UNCHANGED <<html, result, el, locals, inline_graphs, fields, template_type, mapperVars>>

NextTeaser == SplitAtFade \/ StripImages \/ InsertImage \/ NoImage \/ FillSections

SpecTeaser == InitTeaser /\ [][NextTeaser]_vars

(***************************************************************************)
(* The split at the trigger phrase, from the characters.                   *)
(***************************************************************************)
QuoteClasses ==
    { {"'", "U+2018", "U+2019", "U+FFFD"}, {"\"", "U+201C", "U+201D"}, {"-", "U+2013", "U+2014"} }

\* two characters that the comparison takes for the same: the same letter in either
\* case, or two writings of the same quote or dash
Alike(a, b) ==
    \/ a = b
    \/ \E k \in DOMAIN UpperCase : {a, b} \subseteq {UpperCase[k], LowerCase[k]}
    \/ \E q \in QuoteClasses : {a, b} \subseteq q

\* the trigger phrase without the white space around it, cut to FadeKeyLen characters
TriggerPhrase ==
    LET s == fields.fade_from
    IN  IF Visible(s) = {} THEN <<>>
        ELSE LET from == MinOf(Visible(s))
                 to   == MaxOf(Visible(s))
             IN  SubSeq(s, from, IF to - from + 1 > FadeKeyLen THEN from + FadeKeyLen - 1 ELSE to)

\* the phrase stands somewhere in the text of the n-th block of the body
PhraseInText(phrase, text) ==
    /\ phrase # <<>>
    /\ \E k \in 0..(Len(text) - Len(phrase)) :
          \A j \in DOMAIN phrase : Alike(phrase[j], text[k + j])

BlocksWithPhrase ==
    LET phrase == TriggerPhrase
    IN  {n \in DOMAIN locals.blocks : PhraseInText(phrase, get_text(locals.blocks[n].units))}

\* C21: the top-level blocks are partitioned into a visible prefix and a faded suffix
\* at the first block whose normalised text contains the normalised trigger phrase
\* (its first 60 characters): visible followed by faded is the original sequence of
\* blocks, and when the trigger is empty or no block contains it every block is
\* visible and the faded set is empty.
FadePartition ==
    pc = "split" =>
        LET holders == BlocksWithPhrase
        IN  /\ locals.visible_blocks \o locals.faded_blocks = locals.blocks
            /\ holders = {} =>
                  locals.visible_blocks = locals.blocks /\ locals.faded_blocks = <<>>
            /\ holders # {} =>
                  /\ Len(locals.visible_blocks) = MinOf(holders) - 1
                  /\ locals.faded_blocks[1] = locals.blocks[MinOf(holders)]

\* a phrase with white space around it, in another case and with a straight quote
\* where the body has a curly one, stands in the second and in the third block: the
\* split is at the second
FadePartitionWitness ==
    /\ pc = "split"
    /\ Len(locals.blocks) = 3
    /\ fields.fade_from = <<" ", "I", "t", "'", "s", " ", "a", " ">>
    /\ BlocksWithPhrase = {2, 3}
    /\ Len(locals.visible_blocks) = 1
    /\ Len(locals.faded_blocks) = 2

\* a phrase longer than FadeKeyLen finds a block that holds only its first FadeKeyLen characters
LongTriggerWitness ==
    /\ pc = "split"
    /\ Len(fields.fade_from) > FadeKeyLen
    /\ locals.faded_blocks # <<>>
    /\ ~Within(fields.fade_from, get_text(locals.faded_blocks[1].units))

\* a trigger of white space only splits nowhere, although a block holds a blank
BlankTriggerWitness ==
    /\ pc = "split"
    /\ fields.fade_from = <<" ">>
    /\ \E n \in DOMAIN locals.blocks : Within(<<" ">>, get_text(locals.blocks[n].units))
    /\ locals.faded_blocks = <<>>

(***************************************************************************)
(* The visible list after the images were stripped and the featured image  *)
(* was put in.                                                             *)
(***************************************************************************)
\* the visible blocks as the split left them
VisibleAtSplit == Slice(locals.blocks, 0, locals.fade_idx)

FeaturedAt == {k \in DOMAIN locals.visible_blocks : locals.visible_blocks[k].at = 0}

HeadsIn(blocks) == {k \in DOMAIN blocks : blocks[k].name = "h2"}

HasNoText(b) == Visible(get_text(b.units)) = {}

\* a block that shows an image and nothing else: an img element, or an element with
\* an img in it, without visible text
ImageOnly(b) ==
    /\ b.name = "img" \/ \E k \in DOMAIN b.units : b.units[k] = ImgUnit
    /\ HasNoText(b)

\* an element with an img in it and without visible text
ImageWrapper(b) ==
    /\ \E k \in DOMAIN b.units : b.units[k] = ImgUnit
    /\ HasNoText(b)

\* the featured image stands once, before the first h2 or at the end, and the blocks
\* from the first h2 on are those of the split
FeaturedImagePlaced ==
    LET V     == locals.visible_blocks
        heads == HeadsIn(V)
        old   == HeadsIn(VisibleAtSplit)
    IN  /\ Cardinality(FeaturedAt) = 1
        /\ \A p \in FeaturedAt :
              /\ p = (IF heads = {} THEN Len(V) ELSE MinOf(heads) - 1)
              /\ SubSeq(V, p + 1, Len(V))
                    = (IF old = {} THEN <<>>
                       ELSE SubSeq(VisibleAtSplit, MinOf(old), Len(VisibleAtSplit)))

StrippedAndInserted == pc = "inserted" /\ fields.featured_image_url # ""

\* C22: after the strip-and-insert step with a featured image URL the visible list
\* holds the featured image exactly once, immediately before the first subheading of
\* the visible set or as the last element when there is none; no other image-only
\* block remains ahead of that first subheading, and no block at or after it is removed.
FeaturedImageOnceNoOtherImageAhead ==
    StrippedAndInserted =>
        /\ FeaturedImagePlaced
        /\ \A p \in FeaturedAt : \A k \in 1..(p - 1) : ~ImageOnly(locals.visible_blocks[k])

\* what holds: the featured image is placed as claimed, and ahead of it no element
\* that wraps an image without text remains, and every other block of the split does
ImageWrappersStripped ==
    StrippedAndInserted =>
        /\ FeaturedImagePlaced
        /\ \A p \in FeaturedAt :
              SubSeq(locals.visible_blocks, 1, p - 1)
                 = SelectSeq(SubSeq(VisibleAtSplit, 1,
                                    IF HeadsIn(VisibleAtSplit) = {} THEN Len(VisibleAtSplit)
                                    ELSE MinOf(HeadsIn(VisibleAtSplit)) - 1),
                             LAMBDA b : ~ImageWrapper(b))

\* an img element that is itself a top-level block stays ahead of the featured image
BareImageKept ==
    StrippedAndInserted =>
        \A n \in DOMAIN VisibleAtSplit :
            (VisibleAtSplit[n].name = "img" /\ \A m \in 1..n : VisibleAtSplit[m].name # "h2")
                => \E k \in DOMAIN locals.visible_blocks :
                      /\ locals.visible_blocks[k] = VisibleAtSplit[n]
                      /\ \A p \in FeaturedAt : k < p

(***************************************************************************)
(* The slot of the faded content when the call has returned.               *)
(***************************************************************************)
\* the slot is the cell in the row behind the two-column row
SlotExists == el # "no_two_col"

SlotChildren == Children(soup, IndexOf(soup, SlotId))

\* the spans of the one element in the slot, in order: their style and their content
SlotSpans ==
    LET e     == FirstOf(SlotChildren)
        spans == Children(soup, e)
    IN  [n \in 1..Cardinality(spans) |->
            LET k == CHOOSE x \in spans : Cardinality({y \in spans : y < x}) = n - 1
            IN  [name |-> soup[k].name, style |-> soup[k].style,
                 content |-> IF Children(soup, k) = {} THEN <<>> ELSE soup[FirstOf(Children(soup, k))].text]]

FirstFaded == locals.faded_blocks[1]

\* first and second are the inner markup of the block cut at one offset, without the
\* white space next to the cut
HalvesOf(first, second, inner) ==
    \E p \in 0..Len(inner) :
        /\ first = RStrip(Slice(inner, 0, p))
        /\ second = LStrip(Slice(inner, p, Len(inner)))

\* nothing of the faded blocks behind the first is in the tree, and the first is
\* nowhere but in the slot
LaterFadedAbsent ==
    \A k \in DOMAIN soup, n \in DOMAIN locals.faded_blocks :
        /\ soup[k].id # <<"block", locals.faded_blocks[n].at>>
        /\ n > 1 => soup[k].id # <<"fade_el", locals.faded_blocks[n].at>>

OneFadedElement ==
    /\ Cardinality(SlotChildren) = 1
    /\ soup[FirstOf(SlotChildren)].name = FirstFaded.name
    /\ LaterFadedAbsent

\* C23 as stated: with faded blocks and the slot there, the slot is left with exactly
\* one element built from the first faded block only, its first half in a span of
\* opacity 0.5 followed by its second half in a span of opacity 0.2 inside the same
\* element; every later faded block is absent from the output, and an empty faded set
\* leaves the slot empty.
FadedSlotTwoSpans ==
    (pc = "done" /\ SlotExists) =>
        /\ locals.faded_blocks = <<>> => SlotChildren = {}
        /\ locals.faded_blocks # <<>> =>
              /\ OneFadedElement
              /\ Len(SlotSpans) = 2
              /\ SlotSpans[1].name = "span" /\ SlotSpans[1].style = "opacity:0.5;"
              /\ SlotSpans[2].name = "span" /\ SlotSpans[2].style = "opacity:0.2;"
              /\ HalvesOf(SlotSpans[1].content, SlotSpans[2].content,
                          decode_contents(FirstFaded.units))

\* C23 amended: the slot is left with exactly one element built from the first faded
\* block only; the element holds the first half in a span of opacity 0.5 and, only
\* when the second half is not empty, the second half behind it in a span of opacity
\* 0.2; every later faded block is absent, and an empty faded set leaves the slot empty.
FadedSlotOneElement ==
    (pc = "done" /\ SlotExists) =>
        /\ locals.faded_blocks = <<>> => SlotChildren = {}
        /\ locals.faded_blocks # <<>> =>
              /\ OneFadedElement
              /\ Len(SlotSpans) \in {1, 2}
              /\ SlotSpans[1].name = "span" /\ SlotSpans[1].style = "opacity:0.5;"
              /\ SlotSpans[1].content # <<>>
              /\ Len(SlotSpans) = 2 =>
                    /\ SlotSpans[2].name = "span" /\ SlotSpans[2].style = "opacity:0.2;"
                    /\ SlotSpans[2].content # <<>>
              /\ HalvesOf(SlotSpans[1].content,
                          IF Len(SlotSpans) = 2 THEN SlotSpans[2].content ELSE <<>>,
                          decode_contents(FirstFaded.units))

\* two faded blocks, the first cut into two halves that are both in the slot
FadedSlotWitness ==
    /\ pc = "done"
    /\ SlotExists
    /\ Len(locals.faded_blocks) = 2
    /\ Len(SlotSpans) = 2
    /\ SlotSpans[2].content # <<>>

\* a first faded block of one word (a heading): the whole of it is the first half
OneSpanWitness ==
    /\ pc = "done"
    /\ SlotExists
    /\ locals.faded_blocks # <<>>
    /\ Len(SlotSpans) = 1
    /\ SlotSpans[1].content = decode_contents(FirstFaded.units)

(***************************************************************************)
(* The rows of the main table before and after _replace_marketing_body.    *)
(***************************************************************************)
\* the rows directly under the tbody of the main table, each with all that is in it
TopRows(t) ==
    LET main  == IndexOf(t, <<"main", 2>>)
        heads == IF main = NoNode THEN {} ELSE {k \in Children(t, main) : t[k].name = "tr"}
    IN  [n \in 1..Cardinality(heads) |->
            LET k == CHOOSE x \in heads : Cardinality({y \in heads : y < x}) = n - 1
            IN  SubSeq(t, k, SubtreeEnd(t, k))]

\* what stands outside the rows of the main table
OutsideRows(t) ==
    LET main == IndexOf(t, <<"main", 2>>)
    IN  IF main = NoNode THEN t ELSE SubSeq(t, 1, main)

\* the place of the row that holds the UPGRADE NOW link, and of the row that holds the
\* cream author cell (0 when there is none)
RowWith(rows, Holder(_)) ==
    IF \E n \in DOMAIN rows : \E j \in DOMAIN rows[n] : Holder(rows[n][j])
    THEN CHOOSE n \in DOMAIN rows : \E j \in DOMAIN rows[n] : Holder(rows[n][j])
    ELSE 0

IsUpgradeText(node) == node.name = "#text" /\ node.text = "UPGRADE NOW"

IsAuthorCell(node) ==
    node.name = "td" /\ {"tablebox", "table-box-mobile"} \subseteq node.cls /\ node.style = CreamStyle

RowHeads(rows) == [n \in DOMAIN rows |-> rows[n][1].id]

ExpectedNewRows ==
    (IF fields.has_intro THEN <<<<"new_intro_row", 1>>>> ELSE <<>>)
    \o << <<"new_image_row", 1>>, <<"new_main_row", 1>>, <<"new_comment_row", 1>> >>

\* C24: when both the upgrade row and the author row are found, _replace_marketing_body
\* removes exactly the top-level rows strictly between them and leaves, between them
\* and in this order, the intro row (only when the intro is not empty), the
\* featured-image row, the main-body row and the leave-a-comment row; every top-level
\* row up to and including the upgrade row and from the author row on is unchanged
\* and in order.
MarketingBodyFrame ==
    [][ LET before  == TopRows(soup)
            after   == TopRows(soup')
            upgrade == RowWith(before, IsUpgradeText)
            author  == RowWith(before, IsAuthorCell)
            new     == Len(ExpectedNewRows)
        IN  (pc = "_replace_marketing_body" /\ upgrade # 0 /\ author # 0) =>
                /\ pc' = "_update_marketing_author"
                /\ Len(after) = upgrade + new + (Len(before) - author + 1)
                /\ SubSeq(after, 1, upgrade) = SubSeq(before, 1, upgrade)
                /\ RowHeads(SubSeq(after, upgrade + 1, upgrade + new)) = ExpectedNewRows
                /\ SubSeq(after, upgrade + new + 1, Len(after)) = SubSeq(before, author, Len(before))
                /\ OutsideRows(soup') = OutsideRows(soup)
      ]_vars

\* the step has run on a template with a row between the two: the old body is gone
\* and the new rows stand between the upgrade row and the author row
MarketingBodyFrameWitness ==
    /\ pc = "_update_marketing_author"
    /\ "body" \in el.parts
    /\ fields.has_intro
    /\ LET rows == TopRows(soup)
       IN  /\ RowWith(rows, IsUpgradeText) # 0
           /\ RowWith(rows, IsAuthorCell) = RowWith(rows, IsUpgradeText) + 5
    /\ ~InTree(<<"body", 1>>)

(***************************************************************************)
(* article_fetcher.py: the cache file and the calls that read and write    *)
(* it.  SpecCache runs the calls of Procs side by side, each one of        *)
(* _load_articles, refresh_cache and cache_info, one step per access to    *)
(* the file, the clock or the network.  Here                               *)
(*   el      is the world outside: CACHE_FILE and the clock,               *)
(*   pc      the position of each call,                                    *)
(*   locals  the local variables of each call,                             *)
(*   result  what each call returned.                                      *)
(* Path.write_text opens the file for writing, which empties it, writes    *)
(* the text and closes it: three steps, the text arriving in two parts.    *)
(***************************************************************************)
CACHE_MAX_AGE == 24 * 60 * 60

Procs == {1, 2}

Calls == {"_load_articles", "refresh_cache", "cache_info"}

MaxTicks == 3

\* the clock moves in steps of half a CACHE_MAX_AGE
TickSeconds == CACHE_MAX_AGE \div 2

\* the states of the file: absent, complete (the JSON text of one write), empty (just
\* opened for writing), partial (the first part of a text), garbled (parts of two texts)
FileOf(kind, fetched_at, articles, owner) ==
    [kind |-> kind, fetched_at |-> fetched_at, articles |-> articles, owner |-> owner]

NoFile == FileOf("absent", 0, <<>>, 0)

NotRead == FileOf("not read", 0, <<>>, 0)

\* json.loads(CACHE_FILE.read_text()) returns: only a complete text is JSON
Parses(file) == file.kind = "complete"

\* an age that counts as fresh also at the limit
fresh_at_limit(data, now) == now - data.fetched_at <= CACHE_MAX_AGE

\* age = time.time() - data.get('fetched_at', 0); age < CACHE_MAX_AGE
fresh(data, now) == now - data.fetched_at < CACHE_MAX_AGE

\* what _fetch_wp_api and _fetch_rss can return
WpResults == {<<>>, <<"wp article">>}

RssResults == {<<>>, <<"rss article">>}

CACHE_FILE == el.cache_file

Now == el.time

InitCache ==
    /\ el \in [cache_file : {NoFile, FileOf("complete", 0, <<"cached article">>, 0)}, time : {0}]
    /\ \E call \in [Procs -> Calls] :
          /\ locals = [p \in Procs |->
                          [call |-> call[p], articles |-> <<>>, fetched_at |-> 0,
                           data |-> NotRead, read_at |-> 0, fetches |-> <<>>]]
          /\ pc = [p \in Procs |-> IF call[p] = "refresh_cache" THEN "fetch_wp" ELSE "exists"]
    /\ result = [p \in Procs |-> None]
    /\ html = <<>>
    /\ inline_graphs = <<>>
    /\ MapperIdle
    /\ TreeIdle

CacheStep(p, position, local, file, returned) ==
    /\ pc' = [pc EXCEPT ![p] = position]
    /\ locals' = [locals EXCEPT ![p] = local]
    /\ el' = [el EXCEPT !.cache_file = file]
    /\ result' = [result EXCEPT ![p] = returned]
    /\ UNCHANGED <<html, inline_graphs, treeVars, mapperVars>>

\* time passes
Tick ==
    /\ Now < MaxTicks * TickSeconds
    /\ el' = [el EXCEPT !.time = @ + TickSeconds]
    /\ UNCHANGED <<html, pc, result, locals, inline_graphs, treeVars, mapperVars>>

\* if CACHE_FILE.exists():   (_load_articles line 131, cache_info line 112)
Exists(p) ==
    /\ pc[p] = "exists"
    /\ IF CACHE_FILE.kind # "absent"
       THEN CacheStep(p, "read", locals[p], CACHE_FILE, result[p])
       ELSE IF locals[p].call = "cache_info"
       THEN CacheStep(p, "done", locals[p], CACHE_FILE, <<"cached", FALSE>>)
       ELSE CacheStep(p, "fetch_wp", locals[p], CACHE_FILE, result[p])

\* _load_articles lines 132-143: read, parse, test the age; any exception falls through
LoadRead(p) ==
    /\ pc[p] = "read"
    /\ locals[p].call = "_load_articles"
    /\ LET read == [locals[p] EXCEPT !.data = CACHE_FILE, !.read_at = Now]
       IN  IF Parses(CACHE_FILE) /\ fresh(CACHE_FILE, Now)
           THEN CacheStep(p, "done", read, CACHE_FILE, CACHE_FILE.articles)
           ELSE CacheStep(p, "fetch_wp", read, CACHE_FILE, result[p])

\* cache_info lines 114-124
InfoRead(p) ==
    /\ pc[p] = "read"
    /\ locals[p].call = "cache_info"
    /\ LET read == [locals[p] EXCEPT !.data = CACHE_FILE, !.read_at = Now]
       IN  IF Parses(CACHE_FILE)
           THEN CacheStep(p, "done", read, CACHE_FILE,
                          <<"cached", TRUE, Len(CACHE_FILE.articles),
                            "stale", Now - CACHE_FILE.fetched_at >= CACHE_MAX_AGE>>)
           ELSE CacheStep(p, "done", read, CACHE_FILE, <<"cached", FALSE>>)

\* articles = _fetch_wp_api()
FetchWp(p) ==
    /\ pc[p] = "fetch_wp"
    /\ \E articles \in WpResults :
          LET got == [locals[p] EXCEPT !.articles = articles, !.fetches = @ \o <<"wp">>,
                                       !.fetched_at = Now]
          IN  IF articles = <<>>
              THEN CacheStep(p, "fetch_rss", got, CACHE_FILE, result[p])
              ELSE CacheStep(p, "write_open", got, CACHE_FILE, result[p])

\* if not articles: articles = _fetch_rss(); then if articles: ... write; return
FetchRss(p) ==
    /\ pc[p] = "fetch_rss"
    /\ \E articles \in RssResults :
          LET got == [locals[p] EXCEPT !.articles = articles, !.fetches = @ \o <<"rss">>,
                                       !.fetched_at = Now]
          IN  IF articles # <<>>
              THEN CacheStep(p, "write_open", got, CACHE_FILE, result[p])
              ELSE CacheStep(p, "done", got, CACHE_FILE,
                             IF got.call = "refresh_cache" THEN <<0, got.fetched_at>> ELSE <<>>)

\* write_text opens the file: it is empty now.  _load_articles takes the time for
\* fetched_at here (line 155), refresh_cache took it after the fetch (line 84)
WriteOpen(p) ==
    /\ pc[p] = "write_open"
    /\ CacheStep(p, "write_data",
                 IF locals[p].call = "_load_articles" THEN [locals[p] EXCEPT !.fetched_at = Now]
                 ELSE locals[p],
                 FileOf("empty", 0, <<>>, p), result[p])

\* the file cannot be opened: _load_articles catches the exception (line 160),
\* refresh_cache lets it through
WriteOpenFails(p) ==
    /\ pc[p] = "write_open"
    /\ IF locals[p].call = "_load_articles"
       THEN CacheStep(p, "done", locals[p], CACHE_FILE, locals[p].articles)
       ELSE CacheStep(p, "raised", locals[p], CACHE_FILE, result[p])

\* the first part of the text reaches the file
WriteData(p) ==
    /\ pc[p] = "write_data"
    /\ CacheStep(p, "write_close", locals[p],
                 IF CACHE_FILE.kind = "empty" /\ CACHE_FILE.owner = p
                 THEN FileOf("partial", locals[p].fetched_at, locals[p].articles, p)
                 ELSE FileOf("garbled", 0, <<>>, CACHE_FILE.owner),
                 result[p])

\* the rest of the text reaches the file, the file is closed and the call returns
WriteClose(p) ==
    /\ pc[p] = "write_close"
    /\ CacheStep(p, "done", locals[p],
                 IF CACHE_FILE.kind = "partial" /\ CACHE_FILE.owner = p
                 THEN FileOf("complete", locals[p].fetched_at, locals[p].articles, 0)
                 ELSE FileOf("garbled", 0, <<>>, CACHE_FILE.owner),
                 IF locals[p].call = "refresh_cache"
                 THEN <<Len(locals[p].articles), locals[p].fetched_at>>
                 ELSE locals[p].articles)

NextCache ==
    \/ Tick
    \/ \E p \in Procs : Exists(p)
    \/ \E p \in Procs : LoadRead(p)
    \/ \E p \in Procs : InfoRead(p)
    \/ \E p \in Procs : FetchWp(p)
    \/ \E p \in Procs : FetchRss(p)
    \/ \E p \in Procs : WriteOpen(p)
    \/ \E p \in Procs : WriteOpenFails(p)
    \/ \E p \in Procs : WriteData(p)
    \/ \E p \in Procs : WriteClose(p)

SpecCache == InitCache /\ [][NextCache]_vars

(***************************************************************************)
(* What a call of _load_articles did, from what it saw.                    *)
(***************************************************************************)
Returned(p) == pc[p] = "done"

\* the call found a file, the text it read was whole and younger than CACHE_MAX_AGE
\* at the time of the reading
SawFreshCache(p) ==
    /\ locals[p].data.kind = "complete"
    /\ locals[p].read_at - locals[p].data.fetched_at < 24 * 60 * 60

LoadServesOrFetches ==
    \A p \in Procs :
        (locals[p].call = "_load_articles" /\ Returned(p)) =>
            IF SawFreshCache(p)
            THEN /\ locals[p].fetches = <<>>
                 /\ result[p] = locals[p].data.articles
            ELSE /\ \/ locals[p].fetches = <<"wp">> /\ result[p] = <<"wp article">>
                    \/ locals[p].fetches = <<"wp", "rss">> /\ result[p] \in RssResults

\* a step that changes the file is a step of a write of a call whose fetch returned
\* at least one article
CacheWrittenOnlyWithArticles ==
    CACHE_FILE' # CACHE_FILE =>
        \E p \in Procs :
            /\ pc[p] \in {"write_open", "write_data", "write_close"}
            /\ pc'[p] # pc[p]
            /\ locals[p].call \in {"_load_articles", "refresh_cache"}
            /\ locals[p].articles # <<>>
            /\ locals[p].fetches # <<>>

\* C25: _load_articles serves the cached list, without any fetch, exactly when the
\* cache file exists, parses and is younger than CACHE_MAX_AGE; in every other case
\* it fetches, the WordPress API first and the RSS feed only when the API returned
\* nothing; and in _load_articles and refresh_cache alike the cache file is rewritten
\* only when the fetch returned at least one article, otherwise it is left unchanged.
CacheServedFetchedWritten ==
    /\ []LoadServesOrFetches
    /\ [][CacheWrittenOnlyWithArticles]_vars

\* one call was served the cached list; later another found it too old, fetched from
\* the feed after the API returned nothing, and rewrote the file
CacheServedFetchedWitness ==
    /\ locals[1].call = "_load_articles" /\ Returned(1)
    /\ locals[1].fetches = <<>> /\ result[1] = <<"cached article">>
    /\ locals[2].call = "_load_articles" /\ Returned(2)
    /\ locals[2].data.kind = "complete" /\ locals[2].fetches = <<"wp", "rss">>
    /\ CACHE_FILE = FileOf("complete", locals[2].fetched_at, <<"rss article">>, 0)

\* a call whose fetches returned nothing has returned and the file is as it was
CacheKeptWitness ==
    /\ locals[1].call = "refresh_cache" /\ Returned(1)
    /\ locals[1].articles = <<>> /\ locals[1].fetches = <<"wp", "rss">>
    /\ locals[2].call = "cache_info" /\ pc[2] = "exists"
    /\ CACHE_FILE = FileOf("complete", 0, <<"cached article">>, 0)

(***************************************************************************)
(* What the readers of the file see while others write it.                 *)
(***************************************************************************)
\* C26: under any interleaving of concurrent _load_articles, refresh_cache and
\* cache_info calls the cache file is replaced atomically: a reader observes either
\* the complete previous content or the complete new content, never an empty or
\* partly written file.
ReadersSeeWholeFile ==
    \A p \in Procs : locals[p].data.kind \in {"not read", "complete"}

\* what holds: a reader that meets an empty, partial or garbled file does not fail and
\* does not serve it: _load_articles goes on to fetch, cache_info reports no cache
TornFileIsNotServed ==
    \A p \in Procs :
        (Returned(p) /\ locals[p].data.kind \in {"empty", "partial", "garbled"}) =>
            /\ locals[p].call = "_load_articles" => locals[p].fetches # <<>>
            /\ locals[p].call = "cache_info" => result[p] = <<"cached", FALSE>>

=============================================================================
